---- MODULE Spec2Model ----
(***************************************************************************)
(* A model of the PerfettoSQL statement pipeline vendored by this          *)
(* repository (PerfettoSqlEngine, art/core/analysis/trace_processor_impl.h)*)
(* and of the module import function (Import::Run, import.cc).             *)
(*                                                                         *)
(* The program state is the table-function state map, the relations and    *)
(* function contexts held by the embedded SQL engine, the imported flags   *)
(* of the module files and the stack of ExecuteUntilLastStatement calls in *)
(* progress, each with its position in the statement loop.                 *)
(***************************************************************************)
EXTENDS Integers, Sequences, FiniteSets, TLC

\* ------------------------------------------------------------------ bounds
\* Statements yielded by the parser for one top-level source.
MaxStmts == 2
\* Top-level calls of Execute / ExecuteUntilLastStatement.
MaxCalls == 2
\* Rows a passthrough SELECT yields at most.
MaxRows == 1
\* Pipeline calls nested in each other (a call made by IMPORT from a body).
MaxDepth == 3
\* Bound parameters of a table-function body, and its output columns.
MaxParams == 2
MaxCols == 2
\* AddTracebackIfNeeded is applied to one status at most MaxWraps times
MaxWraps == 3
\* columns of the enumerated executors: at most MaxSlots storage slots
\* holding 0..MaxVal, null bit vectors of at most MaxBits bits
MaxSlots == 2
MaxBits == 3
MaxVal == 1
\* Filter calls made on one executor
MaxFilterCalls == 2
\* API objects alive at one time, and Impl instances constructed in all
MaxObjects == 4
MaxImpls == 7

\* ------------------------------------------------------------------- names
\* Relation / table-function names as written in a source, and their
\* lowercase forms (the keys of created_table_function_state_).
TFNames == {"f", "F", "g"}
LowerNames == {"f", "g"}

\* base::ToLower on the names of the model.
ToLower(n) == IF n = "F" THEN "f" ELSE n

\* ------------------------------------------------------------- statements
\* A bound parameter of a prepared body, as sqlite3_bind_parameter_name
\* reports it: the sigil and the identifier; a nameless parameter ("?")
\* has no name at all (a null pointer).
Nameless == <<"", "">>
StartsWithDollar(p) == p[1] = "$"
\* sql_argument::ArgumentDefinition::dollar_name(): "$" prepended to the name.
DollarName(arg) == <<"$", arg>>

\* The body of a CREATE PERFETTO FUNCTION, with what the parsers and the
\* engine report about it.
\*   tag      the body text (what a later call observes)
\*   protoErr "none", or the prototype text fails ParseFunctionName ("name")
\*            or ParsePrototype ("args")
\*   args     the prototype's argument names
\*   retOk    the return spec parses
\*   rets     the declared return column names (table functions)
\*   prepOk   the body is valid SQL
\*   params   the bound parameters of the body, by index
\*   cols     the output column names of the prepared body
\*   refs     the created functions <<name, arity>> the body calls
NoBody ==
  [tag |-> "", protoErr |-> "none", args |-> <<>>, retOk |-> TRUE,
   rets |-> <<>>, prepOk |-> TRUE, params |-> <<>>, cols |-> <<>>,
   refs |-> {}]

\* The query of a CREATE PERFETTO TABLE <name> AS <query>, with what the
\* engine reports about it.
\*   prepOk  the query is valid SQL
\*   names   the output column names
\*   rows    the rows it yields, each a cell per column; a cell is the
\*           sqlite3_column_type and the value
\*   errAt   the sqlite3_step call that fails (0: none)
\*   finalOk RuntimeTable::AddColumnsAndOverlays succeeds
NoQuery ==
  [prepOk |-> TRUE, names |-> <<>>, rows |-> <<>>, errAt |-> 0,
   finalOk |-> TRUE]

\* A statement as the PerfettoSQL parser yields it (CreateFunction,
\* CreateTable, SqliteSql), and the SQL handed to the embedded engine.
\*   op     the SQL of a SqliteSql statement: "select", "create_table",
\*          "drop_table", "create_vtab", "import", "call", "bad"
\*   rows   rows the statement yields; errAt the step that fails (0: none)
\*   ncols  output columns; void: the single column carries the "VOID"
\*          pointer; suppress: it is named suppress_query_output
\*   args   the argument values of IMPORT(...) or of a function call
\*   query  the query of a CreateTable statement
NoStmt ==
  [kind |-> "None", is_table |-> FALSE, replace |-> FALSE, name |-> "",
   body |-> NoBody, op |-> "", rows |-> 0, errAt |-> 0, ncols |-> 0,
   void |-> FALSE, suppress |-> FALSE, args |-> <<>>, query |-> NoQuery]

CreateFunction(name, replace, is_table, body) ==
  [NoStmt EXCEPT !.kind = "CreateFunction", !.name = name,
                 !.replace = replace, !.is_table = is_table, !.body = body]

CreateTable(name, query) ==
  [NoStmt EXCEPT !.kind = "CreateTable", !.name = name, !.query = query]

SqliteSql(op, name) ==
  [NoStmt EXCEPT !.kind = "SqliteSql", !.op = op, !.name = name]

Select(rows, errAt) ==
  [NoStmt EXCEPT !.kind = "SqliteSql", !.op = "select", !.rows = rows,
                 !.errAt = errAt, !.ncols = 1]

\* SELECT 0 WHERE 0: the inert placeholder of a statement the pipeline
\* executed itself.
Placeholder == [Select(0, 0) EXCEPT !.op = "noop"]

\* CREATE VIRTUAL TABLE <name> USING created_table_function
CreateVtab(name) == SqliteSql("create_vtab", name)

\* SELECT IMPORT(args): one row whose single column carries the VOID pointer.
ImportStmt(args) ==
  [NoStmt EXCEPT !.kind = "SqliteSql", !.op = "import", !.rows = 1,
                 !.ncols = 1, !.void = TRUE, !.args = args]

\* ----------------------------------------------- table-function validation
\* CheckParams in three passes over the parameters: every parameter is
\* checked for a name, then every one for the sigil, then every one against
\* the prototype.
CheckParamsByCheck(params, args, i) ==
  IF \E j \in i..Len(params) : params[j] = Nameless THEN "nameless_param"
  ELSE IF \E j \in i..Len(params) : ~StartsWithDollar(params[j])
       THEN "invalid_param_name"
  ELSE IF \E j \in i..Len(params) :
            \A k \in 1..Len(args) : DollarName(args[k]) # params[j]
       THEN "param_not_in_prototype"
  ELSE "ok"

\* CheckParams comparing the identifier only: any sigil passes when the
\* identifier is an argument of the prototype.
CheckParamsAnySigil(params, args, i) ==
  IF \E j \in i..Len(params) : params[j] = Nameless THEN "nameless_param"
  ELSE IF \E j \in i..Len(params) :
            \A k \in 1..Len(args) : args[k] # params[j][2]
       THEN "param_not_in_prototype"
  ELSE "ok"

\* The loop over the bound parameters of the prepared body: parameter i is
\* checked for a name, for the '$' sigil and for its presence in the
\* prototype before parameter i+1 is looked at.
RECURSIVE CheckParams(_, _, _)
CheckParams(params, args, i) ==
  IF i > Len(params) THEN "ok"
  ELSE LET name == params[i] IN
       IF name = Nameless THEN "nameless_param"
       ELSE IF ~StartsWithDollar(name) THEN "invalid_param_name"
       ELSE IF \A j \in 1..Len(args) : DollarName(args[j]) # name
            THEN "param_not_in_prototype"
       ELSE CheckParams(params, args, i + 1)

\* The loop comparing the output column names with the declared ones.
RECURSIVE CheckColumnNames(_, _, _)
CheckColumnNames(cols, rets, i) ==
  IF i > Len(cols) THEN "ok"
  ELSE IF cols[i] # rets[i] THEN "column_name_mismatch"
  ELSE CheckColumnNames(cols, rets, i + 1)

\* ExecuteCreateFunction, table-valued path, up to the point where the
\* state map is consulted: the status of the first failing check, or "ok".
ValidateTableFunction(b) ==
  IF b.protoErr = "name" THEN "bad_function_name"
  ELSE IF b.protoErr = "args" THEN "bad_prototype"
  ELSE IF ~b.retOk THEN "unknown_return_type"
  ELSE IF ~b.prepOk THEN "prepare_failed"
  ELSE LET p == CheckParams(b.params, b.args, 1) IN
       IF p # "ok" THEN p
       ELSE IF Len(b.cols) # Len(b.rets) THEN "column_count_mismatch"
       ELSE CheckColumnNames(b.cols, b.rets, 1)

\* ------------------------------------------------- table-function registry
\* An entry of created_table_function_state_ (CreatedTableFunction::State):
\* the function name as written and the body it was created with.
NoState == [present |-> FALSE, name |-> "", tag |-> ""]
NewState(name, b) == [present |-> TRUE, name |-> name, tag |-> b.tag]

\* A relation of the embedded engine, under the lowercase form of its name:
\* a plain table or a live created_table_function instance, with the name
\* it was created under.
NoRelation == [kind |-> "none", name |-> ""]
Relation(kind, name) == [kind |-> kind, name |-> name]

\* A failed PERFETTO_CHECK ends the process; "none" when every check held,
\* else the place of the check that failed.
NoFatal == "none"

\* OnTableFunctionDestroyed erasing the key as it is written.
OnTableFunctionDestroyedExactName(tf, name) ==
  IF name \in DOMAIN tf /\ tf[name].present
  THEN [tf |-> [tf EXCEPT ![name] = NoState], fatal |-> NoFatal]
  ELSE [tf |-> tf, fatal |-> "OnTableFunctionDestroyed"]

\* OnTableFunctionDestroyed(name): PERFETTO_CHECK(map.Erase(ToLower(name))).
OnTableFunctionDestroyed(tf, name) ==
  IF tf[ToLower(name)].present
  THEN [tf |-> [tf EXCEPT ![ToLower(name)] = NoState], fatal |-> NoFatal]
  ELSE [tf |-> tf, fatal |-> "OnTableFunctionDestroyed"]

\* GetTableFunctionState(name): PERFETTO_CHECK(map.Find(ToLower(name))).
GetTableFunctionState(tf, name) ==
  [state |-> tf[ToLower(name)],
   fatal |-> IF tf[ToLower(name)].present THEN NoFatal
             ELSE "GetTableFunctionState"]

\* ------------------------------------------------------ the embedded engine
\* Created scalar functions are registered under <<name, argc>>.
FnNames == {"fn", "h"}
FnKeys == FnNames \X {1, 2}
NoCtx == [registered |-> FALSE, valid |-> FALSE, tag |-> "", memoized |-> FALSE]

\* SqliteEngine::GetFunctionContext(name, argc): the context or null.
GetFunctionContext(fns, key) == fns[key]

\* SqliteEngine::PrepareStatement: whether the engine compiles the SQL
\* against its current schema. Name resolution is case-insensitive.
PrepareStatement(sql, rel, fns) ==
  CASE sql.op = "bad" -> FALSE
    [] sql.op \in {"create_table", "create_vtab"} ->
         rel[ToLower(sql.name)].kind = "none"
    [] sql.op = "drop_table" -> rel[ToLower(sql.name)].kind # "none"
    [] sql.op = "call" -> fns[<<sql.name, Len(sql.args)>>].registered
    [] OTHER -> TRUE

\* The effect of the first sqlite3_step of a statement on the schema:
\* CREATE TABLE adds a plain relation, CREATE VIRTUAL TABLE ... USING
\* created_table_function creates an instance (which looks up its state),
\* DROP TABLE removes the relation and, for an instance, runs the
\* destruction callback. The statement is compiled again when the schema
\* changed since it was prepared, so a stale one fails here.
StepEffect(sql, tf, rel) ==
  LET l == ToLower(sql.name)
      same == [status |-> "ok", tf |-> tf, rel |-> rel, fatal |-> NoFatal]
  IN
  CASE sql.op = "create_table" ->
         IF rel[l].kind # "none" THEN [same EXCEPT !.status = "engine_error"]
         ELSE [same EXCEPT !.rel = [rel EXCEPT ![l] = Relation("plain", sql.name)]]
    [] sql.op = "create_vtab" ->
         IF rel[l].kind # "none" THEN [same EXCEPT !.status = "engine_error"]
         ELSE IF GetTableFunctionState(tf, sql.name).fatal # NoFatal
              THEN [same EXCEPT !.fatal = GetTableFunctionState(tf, sql.name).fatal]
         ELSE [same EXCEPT !.rel = [rel EXCEPT ![l] = Relation("ctf", sql.name)]]
    [] sql.op = "drop_table" ->
         IF rel[l].kind = "none" THEN [same EXCEPT !.status = "engine_error"]
         ELSE IF rel[l].kind = "ctf"
              THEN LET d == OnTableFunctionDestroyed(tf, rel[l].name) IN
                   [status |-> "ok", tf |-> d.tf,
                    rel |-> [rel EXCEPT ![l] = NoRelation], fatal |-> d.fatal]
         ELSE [same EXCEPT !.rel = [rel EXCEPT ![l] = NoRelation]]
    [] OTHER -> same

\* A prepared statement (SqliteEngine::PreparedStatement): the SQL, the
\* number of sqlite3_step calls made, whether it is exhausted, its status.
\* some = FALSE is the empty std::optional.
NoPrepared ==
  [some |-> FALSE, sql |-> NoStmt, steps |-> 0, done |-> FALSE,
   status |-> "ok", value |-> ""]
Prepared(sql) == [NoPrepared EXCEPT !.some = TRUE, !.sql = sql]

\* PreparedStatement::Step for a statement without schema effect: a row,
\* the end of the rows, or the error the statement raises at this step.
StepRows(p) ==
  LET k == p.steps + 1 IN
  IF p.done \/ p.status # "ok" THEN p
  ELSE IF p.sql.errAt = k
       THEN [p EXCEPT !.steps = k, !.status = "engine_error"]
  ELSE IF k <= p.sql.rows THEN [p EXCEPT !.steps = k]
  ELSE [p EXCEPT !.steps = k, !.done = TRUE]

\* while (stmt.Step()) {}
RECURSIVE DrainStmt(_)
DrainStmt(p) ==
  IF p.done \/ p.status # "ok" THEN p ELSE DrainStmt(StepRows(p))

\* PreparedStatement::IsDone
IsDone(p) == p.done

\* ------------------------------------------------------ scalar functions
\* Whether the engine compiles a scalar function body: the body is valid
\* SQL and every created function it calls is registered.
PrepareBody(b, fns) == b.prepOk /\ \A r \in b.refs : fns[r].registered

\* CreatedFunction::ValidateOrPrepare: an existing definition is kept and
\* the call fails unless replace is set; otherwise the body is prepared and
\* takes the place of the old one.
ValidateOrPrepare(fns, key, replace, b) ==
  IF fns[key].valid /\ ~replace
  THEN [status |-> "already_exists", fns |-> fns]
  ELSE IF ~PrepareBody(b, fns)
       THEN [status |-> "prepare_failed", fns |-> fns]
  ELSE [status |-> "ok",
        fns |-> [fns EXCEPT ![key] = [@ EXCEPT !.valid = TRUE, !.tag = b.tag]]]

\* RegisterCppFunction<CreatedFunction>(name, argc, MakeContext(this))
RegisterCppFunction(fns, key) ==
  [fns EXCEPT ![key] = [NoCtx EXCEPT !.registered = TRUE]]

\* RegisterSqlFunction without the lookup of an existing registration: a
\* fresh context is registered on every call.
RegisterSqlFunctionAlwaysFresh(replace, name, b, fns) ==
  IF b.protoErr # "none" THEN [status |-> "bad_prototype", fns |-> fns]
  ELSE IF ~b.retOk THEN [status |-> "unknown_return_type", fns |-> fns]
  ELSE ValidateOrPrepare(RegisterCppFunction(fns, <<name, Len(b.args)>>),
                         <<name, Len(b.args)>>, replace, b)

\* RegisterSqlFunction preparing the body first: the context of a new
\* function is registered only once its body has been prepared.
RegisterSqlFunctionPrepareFirst(replace, name, b, fns) ==
  IF b.protoErr # "none" THEN [status |-> "bad_prototype", fns |-> fns]
  ELSE IF ~b.retOk THEN [status |-> "unknown_return_type", fns |-> fns]
  ELSE LET key == <<name, Len(b.args)>>
           v == ValidateOrPrepare(fns, key, replace, b)
       IN IF v.status # "ok" THEN v
          ELSE [v EXCEPT !.fns = [v.fns EXCEPT ![key].registered = TRUE]]

\* PerfettoSqlEngine::RegisterSqlFunction
RegisterSqlFunction(replace, name, b, fns) ==
  IF b.protoErr # "none" THEN [status |-> "bad_prototype", fns |-> fns]
  ELSE IF ~b.retOk THEN [status |-> "unknown_return_type", fns |-> fns]
  ELSE LET key == <<name, Len(b.args)>>
           ctx == GetFunctionContext(fns, key)
           registered == IF ~ctx.registered THEN RegisterCppFunction(fns, key)
                         ELSE fns
       IN ValidateOrPrepare(registered, key, replace, b)

\* ------------------------------------------- EnableSqlFunctionMemoization
\* No EnableSqlFunctionMemoization call has been made yet.
NoCall == [name |-> "", status |-> ""]

\* constexpr size_t kSupportedArgCount = 1;
kSupportedArgCount == 1

\* CreatedFunction::EnableMemoization(ctx): the call-result cache of this
\* registration is switched on.
EnableMemoization(fns, key) ==
  [status |-> "ok", fns |-> [fns EXCEPT ![key].memoized = TRUE]]

\* EnableSqlFunctionMemoization looking the name up under any arity: the
\* registration found is the one of lowest arity.
EnableSqlFunctionMemoizationAnyArity(name, fns) ==
  LET found == {k \in FnKeys : k[1] = name /\ fns[k].registered} IN
  IF found = {} THEN [status |-> "not_found", fns |-> fns]
  ELSE EnableMemoization(fns,
         CHOOSE k \in found : \A j \in found : k[2] <= j[2])

\* PerfettoSqlEngine::EnableSqlFunctionMemoization
EnableSqlFunctionMemoization(name, fns) ==
  LET ctx == GetFunctionContext(fns, <<name, kSupportedArgCount>>) IN
  IF ~ctx.registered THEN [status |-> "not_found", fns |-> fns]
  ELSE EnableMemoization(fns, <<name, kSupportedArgCount>>)

\* -------------------------------------------------- ExecuteCreateFunction
\* Execute("DROP TABLE <name>"), the nested pipeline call of the replace
\* path: one statement, prepared and stepped once.
ExecuteDropTable(name, tf, rel, fns) ==
  IF ~PrepareStatement(SqliteSql("drop_table", name), rel, fns)
  THEN [status |-> "engine_error", tf |-> tf, rel |-> rel, fatal |-> NoFatal]
  ELSE StepEffect(SqliteSql("drop_table", name), tf, rel)

\* created_table_function_state_.Insert(lower_name, state) followed by
\* PERFETTO_CHECK(it_and_inserted.second).
InsertState(tf, name, b) ==
  IF tf[ToLower(name)].present THEN [tf |-> tf, fatal |-> "Insert"]
  ELSE [tf |-> [tf EXCEPT ![ToLower(name)] = NewState(name, b)],
        fatal |-> NoFatal]

\* The part of ExecuteCreateFunction that follows validation: the lookup of
\* the lowercase name, the replace path and the insertion of the new state.
InstallTableFunction(cf, tf, rel, fns) ==
  LET same == [status |-> "ok", source |-> NoStmt, tf |-> tf, rel |-> rel,
               fns |-> fns, fatal |-> NoFatal]
      exists == tf[ToLower(cf.name)].present
      d == IF exists /\ cf.replace THEN ExecuteDropTable(cf.name, tf, rel, fns)
           ELSE [status |-> "ok", tf |-> tf, rel |-> rel, fatal |-> NoFatal]
      ins == InsertState(d.tf, cf.name, cf.body)
  IN
  IF exists /\ ~cf.replace THEN [same EXCEPT !.status = "already_exists"]
  ELSE IF d.fatal # NoFatal THEN [same EXCEPT !.fatal = d.fatal]
  ELSE IF d.status # "ok" THEN [same EXCEPT !.status = d.status]
  ELSE IF ins.fatal # NoFatal
       THEN [same EXCEPT !.tf = d.tf, !.rel = d.rel, !.fatal = ins.fatal]
  ELSE [same EXCEPT !.tf = ins.tf, !.rel = d.rel, !.source = CreateVtab(cf.name)]

\* PerfettoSqlEngine::ExecuteCreateFunction: the SQL to hand to the engine
\* in place of the statement, or the error.
ExecuteCreateFunction(cf, tf, rel, fns) ==
  LET same == [status |-> "ok", source |-> NoStmt, tf |-> tf, rel |-> rel,
               fns |-> fns, fatal |-> NoFatal]
  IN
  IF ~cf.is_table
  THEN LET r == RegisterSqlFunction(cf.replace, cf.name, cf.body, fns) IN
       [same EXCEPT !.status = r.status, !.fns = r.fns,
                    !.source = IF r.status = "ok" THEN Placeholder ELSE NoStmt]
  ELSE LET v == ValidateTableFunction(cf.body) IN
       IF v # "ok" THEN [same EXCEPT !.status = v]
       ELSE InstallTableFunction(cf, tf, rel, fns)

\* ------------------------------------------------------- RegisterSqlTable
TableNames == {"t", "u"}
\* The names RegisterTable is called with.
StaticNames == {"u"}

\* A table behind a virtual table module: a RuntimeTable (the column names,
\* one builder per column, the row count set by finalization) or a static
\* table, whose content is the caller's.
NoTable ==
  [kind |-> "none", names |-> <<>>, columns |-> <<>>, row_count |-> 0]

\* std::make_unique<RuntimeTable>(pool_, column_names)
NewRuntimeTable(names) ==
  [kind |-> "runtime", names |-> names,
   columns |-> [i \in 1..Len(names) |-> <<>>], row_count |-> 0]

\* RuntimeTable::AddNull, AddInteger, AddFloat, AddText: the value
\* is appended to the builder of column i.
AddNull(t, i) ==
  [t EXCEPT !.columns[i] = Append(@, [type |-> "null", val |-> 0])]
AddInteger(t, i, v) ==
  [t EXCEPT !.columns[i] = Append(@, [type |-> "integer", val |-> v])]
AddFloat(t, i, v) ==
  [t EXCEPT !.columns[i] = Append(@, [type |-> "float", val |-> v])]
AddText(t, i, v) ==
  [t EXCEPT !.columns[i] = Append(@, [type |-> "text", val |-> v])]

\* RuntimeTable::AddColumnsAndOverlays(rows)
AddColumnsAndOverlays(t, rows, ok) ==
  IF ok THEN [status |-> "ok", table |-> [t EXCEPT !.row_count = rows]]
  ELSE [status |-> "finalize_failed", table |-> t]

\* AppendRow appending nothing for a null cell.
RECURSIVE AppendRowSkippingNull(_, _, _)
AppendRowSkippingNull(t, row, i) ==
  IF i > Len(t.names) THEN [status |-> "ok", table |-> t]
  ELSE CASE row[i].type = "null" -> AppendRowSkippingNull(t, row, i + 1)
         [] row[i].type = "integer" ->
              AppendRowSkippingNull(AddInteger(t, i, row[i].val), row, i + 1)
         [] row[i].type = "float" ->
              AppendRowSkippingNull(AddFloat(t, i, row[i].val), row, i + 1)
         [] row[i].type = "text" ->
              AppendRowSkippingNull(AddText(t, i, row[i].val), row, i + 1)
         [] row[i].type = "blob" ->
              [status |-> "bytes_not_supported", table |-> t]

\* The loop over the columns of one row (lines 355-381).
RECURSIVE AppendRow(_, _, _)
AppendRow(t, row, i) ==
  IF i > Len(t.names) THEN [status |-> "ok", table |-> t]
  ELSE CASE row[i].type = "null" -> AppendRow(AddNull(t, i), row, i + 1)
         [] row[i].type = "integer" ->
              AppendRow(AddInteger(t, i, row[i].val), row, i + 1)
         [] row[i].type = "float" ->
              AppendRow(AddFloat(t, i, row[i].val), row, i + 1)
         [] row[i].type = "text" ->
              AppendRow(AddText(t, i, row[i].val), row, i + 1)
         [] row[i].type = "blob" ->
              [status |-> "bytes_not_supported", table |-> t]

\* The loop over sqlite3_step (lines 353-386): rows counts the rows
\* appended so far; the loop ends at SQLITE_DONE or at an error.
RECURSIVE StepBody(_, _, _)
StepBody(q, t, rows) ==
  IF q.errAt = rows + 1
  THEN [status |-> "body_error", table |-> t, rows |-> rows]
  ELSE IF rows = Len(q.rows)
  THEN [status |-> "ok", table |-> t, rows |-> rows]
  ELSE LET a == AppendRow(t, q.rows[rows + 1], 1) IN
       IF a.status # "ok"
       THEN [status |-> a.status, table |-> a.table, rows |-> rows]
       ELSE StepBody(q, a.table, rows + 1)

\* RegisterSqlTable registering the table as soon as the rows are in, before
\* the result of the finalization is looked at.
RegisterSqlTableBeforeFinalize(name, q, tabs) ==
  IF ~q.prepOk THEN [status |-> "engine_error", tables |-> tabs]
  ELSE IF \E i \in 1..Len(q.names) : q.names[i] = ""
  THEN [status |-> "empty_column_name", tables |-> tabs]
  ELSE LET s == StepBody(q, NewRuntimeTable(q.names), 0)
           f == AddColumnsAndOverlays(s.table, s.rows, q.finalOk)
       IN
       IF s.status # "ok" THEN [status |-> s.status, tables |-> tabs]
       ELSE [status |-> f.status, tables |-> [tabs EXCEPT ![name] = f.table]]

\* PerfettoSqlEngine::RegisterSqlTable
RegisterSqlTable(name, q, tabs) ==
  IF ~q.prepOk THEN [status |-> "engine_error", tables |-> tabs]
  ELSE IF \E i \in 1..Len(q.names) : q.names[i] = ""
  THEN [status |-> "empty_column_name", tables |-> tabs]
  ELSE LET s == StepBody(q, NewRuntimeTable(q.names), 0)
           f == AddColumnsAndOverlays(s.table, s.rows, q.finalOk)
       IN
       IF s.status # "ok" THEN [status |-> s.status, tables |-> tabs]
       ELSE IF f.status # "ok" THEN [status |-> f.status, tables |-> tabs]
       ELSE [status |-> "ok", tables |-> [tabs EXCEPT ![name] = f.table]]

\* RegisterTable giving up when the insert fails: the failure is logged
\* but the table is not registered.
RegisterTableEffectUndone(name, inserted, tabs, lst, log) ==
  [tables |-> IF inserted
              THEN [tabs EXCEPT ![name] = [NoTable EXCEPT !.kind = "static"]]
              ELSE tabs,
   listing |-> IF inserted THEN lst \cup {name} ELSE lst,
   elog |-> IF inserted THEN log ELSE log \cup {name}]

\* PerfettoSqlEngine::RegisterTable: the static table is registered as a
\* virtual table module, then a row naming it is inserted into
\* perfetto_tables; inserted tells whether sqlite3_exec succeeded. A
\* failure is logged.
RegisterTableEffect(name, inserted, tabs, lst, log) ==
  [tables |-> [tabs EXCEPT ![name] = [NoTable EXCEPT !.kind = "static"]],
   listing |-> IF inserted THEN lst \cup {name} ELSE lst,
   elog |-> IF inserted THEN log ELSE log \cup {name}]

\* -------------------------------------------------------------- statistics
ZeroStats == [statement_count |-> 0, statement_count_with_output |-> 0]

\* IncrementCountForStmt looking at the VOID pointer and at the column name
\* whatever the number of columns.
IncrementCountAnyColumnCount(p, stats) ==
  LET counted == [stats EXCEPT !.statement_count = @ + 1] IN
  IF IsDone(p) THEN counted
  ELSE IF p.sql.void THEN counted
  ELSE IF p.sql.suppress THEN counted
  ELSE [counted EXCEPT !.statement_count_with_output = @ + 1]

\* IncrementCountForStmt without the test of IsDone.
IncrementCountWithoutDoneTest(p, stats) ==
  LET counted == [stats EXCEPT !.statement_count = @ + 1] IN
  IF p.sql.ncols = 1 /\ p.sql.void THEN counted
  ELSE IF p.sql.ncols = 1 /\ p.sql.suppress THEN counted
  ELSE [counted EXCEPT !.statement_count_with_output = @ + 1]

\* IncrementCountForStmt
IncrementCountForStmt(p, stats) ==
  LET counted == [stats EXCEPT !.statement_count = @ + 1] IN
  IF IsDone(p) THEN counted
  ELSE IF p.sql.ncols = 1 /\ p.sql.void THEN counted
  ELSE IF p.sql.ncols = 1 /\ p.sql.suppress THEN counted
  ELSE [counted EXCEPT !.statement_count_with_output = @ + 1]


\* ------------------------------------------------ AddTracebackIfNeeded
\* base::Status: ok or not, the message (a sequence of parts) and the
\* payload "perfetto.dev/has_traceback" being "true".
OkStatus == [ok |-> TRUE, message |-> <<>>, payload |-> FALSE]
ErrStatus(message) == [ok |-> FALSE, message |-> message, payload |-> FALSE]

\* SqlSource::AsTraceback(std::nullopt): the traceback text of a source.
Sources == {"s1", "s2"}
AsTraceback(source) == "Traceback " \o source \o ": "

\* AddTracebackIfNeeded without the test of the payload.
AddTracebackAlways(status, source) ==
  IF status.ok THEN status
  ELSE [ErrStatus(<<AsTraceback(source)>> \o status.message)
          EXCEPT !.payload = TRUE]

\* AddTracebackIfNeeded
AddTracebackIfNeeded(status, source) ==
  IF status.ok THEN status
  ELSE IF status.payload THEN status
  ELSE [ErrStatus(<<AsTraceback(source)>> \o status.message)
          EXCEPT !.payload = TRUE]

\* ------------------------------------------------------------------ import
\* The module map: one module "m" whose files are keyed by import key
\* <<module, file>>; sql_modules::GetModuleName gives the module of a key.
ModuleNames == {"m"}
ImportKeys == {<<"m", "ok">>, <<"m", "out">>, <<"m", "self">>, <<"m", "dep">>}
GetModuleName(key) == key[1]

\* Argument values of IMPORT(...).
StringValue(key) == [type |-> "string", key |-> key]
IntValue == [type |-> "int", key |-> <<"", "">>]

\* ModuleFile.sql of each file: "ok" creates a table, "out" returns a row,
\* "self" imports its own key, "dep" imports "ok".
ModuleSql(key) ==
  CASE key = <<"m", "ok">> -> <<SqliteSql("create_table", "g")>>
    [] key = <<"m", "out">> -> <<Select(1, 0)>>
    [] key = <<"m", "self">> -> <<ImportStmt(<<StringValue(<<"m", "self">>)>>)>>
    [] key = <<"m", "dep">> -> <<ImportStmt(<<StringValue(<<"m", "ok">>)>>)>>
    [] OTHER -> <<>>

\* ImportEntry without the test of the imported flag: every call on a
\* known file executes its body.
ImportEntryIgnoringImported(args, imp) ==
  IF Len(args) # 1 THEN "bad_argc"
  ELSE IF args[1].type # "string" THEN "type_error"
  ELSE IF GetModuleName(args[1].key) \notin ModuleNames THEN "unknown_module"
  ELSE IF args[1].key \notin ImportKeys THEN "unknown_file"
  ELSE "execute"

\* Import::Run up to the call of Execute: the error it returns, "noop" for
\* a file already imported, or "execute".
ImportEntry(args, imp) ==
  IF Len(args) # 1 THEN "bad_argc"
  ELSE IF args[1].type # "string" THEN "type_error"
  ELSE IF GetModuleName(args[1].key) \notin ModuleNames THEN "unknown_module"
  ELSE IF args[1].key \notin ImportKeys THEN "unknown_file"
  ELSE IF imp[args[1].key] THEN "noop"
  ELSE "execute"

\* ImportExit without the test of statement_count_with_output.
ImportExitIgnoringOutput(status, stats) == status

\* Import::Run after Execute returned: the status of Run.
ImportExit(status, stats) ==
  IF status # "ok" THEN status
  ELSE IF stats.statement_count_with_output > 0 THEN "returning_values"
  ELSE "ok"

\* SetImported writing the flags of all the files: the file just run is
\* marked when Run succeeded, every other file is marked as not imported.
SetImportedOnly(imp, key, run) ==
  [k \in DOMAIN imp |-> k = key /\ run = "ok"]

\* module_file->imported = true, reached only when Run succeeds.
SetImported(imp, key, run) ==
  IF run = "ok" THEN [imp EXCEPT ![key] = TRUE] ELSE imp

\* ------------------------------------------------------------------- state
\* ------------------------------------------------------ column filtering
\* A RowMap: the contiguous range [start, end) or an explicit list of
\* indices.
Range(start, end) == [kind |-> "range", start |-> start, end |-> end, indices |-> <<>>]
IndexVector(indices) == [kind |-> "index", start |-> 0, end |-> 0, indices |-> indices]

\* RowMap::GetAllIndices and the set of its elements
Indices(rm) ==
  IF rm.kind = "range" THEN [i \in 1..(rm.end - rm.start) |-> rm.start + i - 1]
  ELSE rm.indices
Rows(rm) == {Indices(rm)[i] : i \in 1..Len(Indices(rm))}

\* The RowMap that holds the set S of indices: a range when S is
\* contiguous, the increasing list of its elements otherwise.
RowMapOf(S) ==
  IF S = {} THEN Range(0, 0)
  ELSE LET lo == CHOOSE x \in S : \A y \in S : x <= y
           hi == CHOOSE x \in S : \A y \in S : y <= x
       IN IF S = lo..hi THEN Range(lo, hi + 1)
          ELSE IndexVector(SelectSeq([i \in 1..(hi + 1) |-> i - 1],
                                     LAMBDA x : x \in S))

\* BitVector::CountSetBits(end): the set bits among the first end bits;
\* BitVector::IndexOfNthSet(n): the position of set bit number n, from 0.
CountSetBits(bv, end) == Cardinality({k \in 1..end : k <= Len(bv) /\ bv[k] = 1})
IndexOfNthSet(bv, n) ==
  IF \E p \in 1..Len(bv) : bv[p] = 1 /\ CountSetBits(bv, p - 1) = n
  THEN (CHOOSE p \in 1..Len(bv) : bv[p] = 1 /\ CountSetBits(bv, p - 1) = n) - 1
  ELSE Len(bv)

\* The overlays. NullOverlay(bv): row i is null when bit i is clear and is
\* otherwise the inner row with the rank of bit i. SelectorOverlay(bv): row
\* i is the inner row at the position of set bit number i.
NullOverlay(bv) == [kind |-> "null", bv |-> bv]
SelectorOverlay(bv) == [kind |-> "selector", bv |-> bv]
OverlaySize(o) ==
  IF o.kind = "null" THEN Len(o.bv) ELSE CountSetBits(o.bv, Len(o.bv))
IsNullRow(o, i) == o.kind = "null" /\ i + 1 \in DOMAIN o.bv /\ o.bv[i + 1] = 0
MapToStorageIndex(o, i) ==
  IF o.kind = "null" THEN CountSetBits(o.bv, i) ELSE IndexOfNthSet(o.bv, i)

\* SimpleColumn{overlays, storage}, the first overlay outermost; the number
\* of its logical rows.
SimpleColumn(overlays, storage) == [overlays |-> overlays, storage |-> storage]
ColumnSize(col) ==
  IF col.overlays = <<>> THEN Len(col.storage) ELSE OverlaySize(col.overlays[1])

\* Constraint{col_idx, op, value} and the comparison of a stored value
\* with the literal. Storage holds no null: IsNull matches no stored value.
FilterOps == {"eq", "ne", "lt", "le", "gt", "ge", "is_null"}
Constraint(col, op, value) == [col |-> col, op |-> op, value |-> value]
Compare(op, v, value) ==
  CASE op = "eq" -> v = value
    [] op = "ne" -> v # value
    [] op = "lt" -> v < value
    [] op = "le" -> v <= value
    [] op = "gt" -> v > value
    [] op = "ge" -> v >= value
    [] OTHER -> FALSE

\* StorageOverlay::MapToStorageRange: the inner rows a range of rows of
\* the overlay may refer to.
MapToStorageRange(o, r) ==
  IF o.kind = "null"
  THEN Range(CountSetBits(o.bv, r.start), CountSetBits(o.bv, r.end))
  ELSE IF r.start >= r.end THEN Range(0, 0)
  ELSE Range(IndexOfNthSet(o.bv, r.start), IndexOfNthSet(o.bv, r.end - 1) + 1)

\* MapToTableBitVector with a null row matching nothing.
MapToTableBitVectorNullUnmatched(o, op, r, matched) ==
  {t \in r.start..(r.end - 1) :
     ~IsNullRow(o, t) /\ MapToStorageIndex(o, t) \in matched}

\* StorageOverlay::MapToTableBitVector: the rows of the range r of the
\* overlay that match, given the inner rows that match. A null row matches
\* IsNull and nothing else.
MapToTableBitVector(o, op, r, matched) ==
  {t \in r.start..(r.end - 1) :
     IF IsNullRow(o, t) THEN op = "is_null"
     ELSE MapToStorageIndex(o, t) \in matched}

\* The bounds strategy below overlay k: the range is mapped inwards
\* through each overlay, the storage is searched linearly over the range
\* that arrives, and the matches are mapped back outwards.
RECURSIVE BoundedSearch(_, _, _, _)
BoundedSearch(c, col, k, r) ==
  IF k > Len(col.overlays)
  THEN {i \in r.start..(r.end - 1) :
          i + 1 \in DOMAIN col.storage /\ Compare(c.op, col.storage[i + 1], c.value)}
  ELSE MapToTableBitVector(col.overlays[k], c.op, r,
         BoundedSearch(c, col, k + 1, MapToStorageRange(col.overlays[k], r)))

\* BoundedColumnFilter searching the whole storage, whatever the
\* candidates.
BoundedColumnFilterWholeColumn(c, col, rm) ==
  RowMapOf(BoundedSearch(c, col, 1,
             Range(0, IF col.overlays = <<>> THEN Len(col.storage)
                      ELSE OverlaySize(col.overlays[1]))))

\* QueryExecutor::BoundedColumnFilter: the search runs over the range from
\* the first to the last candidate and its result is intersected with the
\* candidates.
BoundedColumnFilter(c, col, rm) ==
  LET idx == Indices(rm) IN
  IF idx = <<>> THEN rm
  ELSE RowMapOf(Rows(rm)
                \cap BoundedSearch(c, col, 1, Range(idx[1], idx[Len(idx)] + 1)))

\* The indexed strategy from overlay k on. pairs holds, for each candidate
\* still undecided, its row and the row of overlay k it resolved to;
\* valid holds the candidates already accepted. Overlay k decides its null
\* rows and resolves the others one level further in; the storage decides
\* what is left.
RECURSIVE IndexedSearch(_, _, _, _, _)
IndexedSearch(c, col, k, pairs, valid) ==
  IF k > Len(col.overlays)
  THEN valid \cup
       {pairs[j][1] : j \in {x \in 1..Len(pairs) :
          /\ pairs[x][2] + 1 \in DOMAIN col.storage
          /\ Compare(c.op, col.storage[pairs[x][2] + 1], c.value)}}
  ELSE LET o == col.overlays[k]
           null == SelectSeq(pairs, LAMBDA q : IsNullRow(o, q[2]))
           lookup == SelectSeq(pairs, LAMBDA q : ~IsNullRow(o, q[2]))
       IN IndexedSearch(c, col, k + 1,
            [j \in 1..Len(lookup) |->
               <<lookup[j][1], MapToStorageIndex(o, lookup[j][2])>>],
            IF c.op = "is_null"
            THEN valid \cup {null[j][1] : j \in 1..Len(null)}
            ELSE valid)

\* IndexedColumnFilter looking the candidates up in the storage as they
\* are, without resolving them through the overlays.
IndexedColumnFilterUnresolved(c, col, rm) ==
  LET idx == Indices(rm)
      passed == IndexedSearch(c, [col EXCEPT !.overlays = <<>>], 1,
                              [j \in 1..Len(idx) |-> <<idx[j], idx[j]>>], {})
  IN IndexVector(SelectSeq(idx, LAMBDA g : g \in passed))

\* IndexedColumnFilter going through the overlays from the innermost
\* outwards.
IndexedColumnFilterInnermostFirst(c, col, rm) ==
  LET idx == Indices(rm)
      n == Len(col.overlays)
      reversed == [col EXCEPT !.overlays = [k \in 1..n |-> col.overlays[n + 1 - k]]]
      passed == IndexedSearch(c, reversed, 1,
                              [j \in 1..Len(idx) |-> <<idx[j], idx[j]>>], {})
  IN IndexVector(SelectSeq(idx, LAMBDA g : g \in passed))

\* IndexedColumnFilter returning the candidates that pass last to first.
IndexedColumnFilterDescending(c, col, rm) ==
  LET idx == Indices(rm)
      n == Len(idx)
      passed == IndexedSearch(c, col, 1, [j \in 1..n |-> <<idx[j], idx[j]>>], {})
  IN IndexVector(SelectSeq([j \in 1..n |-> idx[n + 1 - j]], LAMBDA g : g \in passed))

\* QueryExecutor::IndexedColumnFilter: the candidates that pass, as an
\* index list in the order of the candidates.
IndexedColumnFilter(c, col, rm) ==
  LET idx == Indices(rm)
      passed == IndexedSearch(c, col, 1, [j \in 1..Len(idx) |-> <<idx[j], idx[j]>>], {})
  IN IndexVector(SelectSeq(idx, LAMBDA g : g \in passed))

\* QueryExecutor::FilterColumn: the bounds strategy for a column without
\* overlays, the indexed strategy otherwise.
FilterColumn(c, col, rm) ==
  IF col.overlays = <<>> THEN BoundedColumnFilter(c, col, rm)
  ELSE IndexedColumnFilter(c, col, rm)

\* Filter returning after the first constraint.
FilterFirstConstraint(c_vec, columns, steps) ==
  IF c_vec = <<>> THEN steps
  ELSE <<steps[Len(steps)],
         FilterColumn(Head(c_vec), columns[Head(c_vec).col + 1], steps[Len(steps)])>>

\* Filter running every constraint over the range of all rows.
RECURSIVE FilterFromAllRows(_, _, _)
FilterFromAllRows(c_vec, columns, steps) ==
  IF c_vec = <<>> THEN steps
  ELSE FilterFromAllRows(Tail(c_vec), columns,
         Append(steps, FilterColumn(Head(c_vec), columns[Head(c_vec).col + 1],
                                    steps[1])))

\* QueryExecutor::Filter: the RowMaps of the narrowing, from the range of
\* all rows to the result, one per constraint taken in order.
RECURSIVE Filter(_, _, _)
Filter(c_vec, columns, steps) ==
  IF c_vec = <<>> THEN steps
  ELSE Filter(Tail(c_vec), columns,
         Append(steps, FilterColumn(Head(c_vec), columns[Head(c_vec).col + 1],
                                    steps[Len(steps)])))

\* ------------------------------------------------------ shared Impl
\* A null shared_ptr or an empty weak_ptr.
NoImpl == 0

\* shared_ptr::use_count of an Impl: the API objects whose impl_ owns it.
UseCount(owners, i) == Cardinality({o \in DOMAIN owners : owners[o] = i})

\* weak_ptr::lock: the Impl referred to while it has an owner, else null.
Lock(weak, owners) ==
  IF weak # NoImpl /\ UseCount(owners, weak) > 0 THEN weak ELSE NoImpl

\* GetShared constructing an Impl on every call.
GetSharedAlwaysNew(weak, owners, n) ==
  [result |-> n + 1, weak |-> n + 1, impls |-> n + 1]

\* SharedImpl<T>::GetShared: the locked instance, or a new T to which the
\* static weak_ptr is swapped.
GetShared(weak, owners, n) ==
  IF Lock(weak, owners) # NoImpl
  THEN [result |-> Lock(weak, owners), weak |-> weak, impls |-> n]
  ELSE [result |-> n + 1, weak |-> n + 1, impls |-> n + 1]

VARIABLES
  tfState,     \* created_table_function_state_, by lowercase name
  relations,   \* the engine's relations, by lowercase name
  functions,   \* the engine's created-function contexts, by <<name, argc>>
  imported,    \* ModuleFile.imported, by import key
  stack,       \* the ExecuteUntilLastStatement calls in progress, outermost first
  calls,       \* top-level calls made so far
  fatal,       \* NoFatal, or the PERFETTO_CHECK that failed: the process is gone
  alive,       \* the PerfettoSqlEngine has not been destroyed
  bodyRuns,    \* per import key, how often Import::Run handed the body to Execute
  runLog,      \* per import key, the outcomes of the Import::Run calls that returned
  lastCreated, \* per <<name, argc>>, the body of the last CREATE FUNCTION that succeeded
  tables,      \* the tables registered as virtual table modules, by name
  listing,     \* the names that have a row in perfetto_tables
  elog,        \* the names whose insert into perfetto_tables failed and was logged
  memoRet,     \* the name and the status of the last EnableSqlFunctionMemoization call
  tfCall,      \* the last direct call on the state map: the map before it, what it returned
  impl_,       \* per API object, the Impl its impl_ points to; NoImpl when the object is not alive
  weak_instance, \* the Impl the static weak_ptr of GetShared refers to, NoImpl when empty
  impls,       \* the Impl instances constructed so far (they are numbered from 1)
  tbIn,        \* the status a caller handed to AddTracebackIfNeeded first
  tbStatus,    \* that status after the applications made so far
  tbSources,   \* the sources of the applications made so far, in order
  qe,          \* a QueryExecutor (columns, row count) and the arguments its caller uses
  qeCalls      \* the filter calls made on it: the function, the constraints, the RowMaps

\* The state outside the statement pipeline, which its steps leave alone.
tbVars == <<tbIn, tbStatus, tbSources>>
qeVars == <<qe, qeCalls>>
apiVars == <<impl_, weak_instance, impls>>
aux == <<memoRet, tbVars, qeVars, tfCall, apiVars>>

vars ==
  <<tfState, relations, functions, imported, stack, calls, fatal, alive,
    bodyRuns, runLog, lastCreated, tables, listing, elog, aux>>

\* The source of a top-level call: its statements are whatever the caller
\* wrote, so the parser's next statement is any statement of the alphabet.
TopSource == <<"", "">>

\* One call of ExecuteUntilLastStatement (and of Execute around it).
\*   mode     "execute": called through Execute; "until_last": called directly
\*   src      TopSource, or the import key whose file is being executed
\*   idx      statements the parser has yielded
\*   pc       the position in the loop
\*   parserOk parser.status() after the loop
\*   stmt     parser.statement()
\*   source   the SQL to prepare for it
\*   cur, res the locals cur_stmt and res
\*   stats    the ExecutionStats
\*   entry    history: for a call made by Import::Run, the imported flags
\*            and the engine's schema when the call was made
\*   undrained  history: the statements that res = std::move(cur_stmt)
\*            replaced before they were exhausted
\*   status   the status returned (at pc = "done")
NewFrame(mode, src) ==
  [mode |-> mode, src |-> src, idx |-> 0, pc |-> "next", parserOk |-> TRUE,
   stmt |-> NoStmt, source |-> NoStmt, cur |-> NoPrepared, res |-> NoPrepared,
   stats |-> ZeroStats, undrained |-> 0, entry |-> <<>>, status |-> "ok"]

Top == stack[Len(stack)]
SetTop(f) == [stack EXCEPT ![Len(stack)] = f]
Fail(f, status) == [f EXCEPT !.pc = "done", !.status = status]
Running == alive /\ fatal = NoFatal /\ stack # <<>>

\* No direct call on the state map has been made.
NoTfCall == [op |-> "", name |-> "", before |-> <<>>, got |-> NoState]

InitEngine ==
  /\ tfState = [l \in LowerNames |-> NoState]
  /\ relations = [l \in LowerNames |-> NoRelation]
  /\ functions = [k \in FnKeys |-> NoCtx]
  /\ imported = [k \in ImportKeys |-> FALSE]
  /\ stack = <<>>
  /\ calls = 0
  /\ fatal = NoFatal
  /\ alive = TRUE
  /\ bodyRuns = [k \in ImportKeys |-> 0]
  /\ runLog = [k \in ImportKeys |-> <<>>]
  /\ lastCreated = [k \in FnKeys |-> ""]
  /\ tables = [n \in TableNames |-> NoTable]
  /\ listing = {}
  /\ elog = {}
  /\ memoRet = NoCall
  /\ tfCall = NoTfCall

\* No status is being wrapped.
InitTraceback == tbIn = OkStatus /\ tbStatus = OkStatus /\ tbSources = <<>>

\* No QueryExecutor has been built.
NoExecutor ==
  [test |-> "", fn |-> "", size |-> 0, gets |-> <<>>, columns |-> <<>>,
   row_count |-> 0, c_vec |-> <<>>, rm |-> Range(0, 0)]
InitFilter == qe = NoExecutor /\ qeCalls = <<>>

\* No API object has been constructed: the static weak_ptr is empty.
InitApi ==
  /\ impl_ = [o \in 1..MaxObjects |-> NoImpl]
  /\ weak_instance = NoImpl
  /\ impls = 0

Init == InitEngine /\ InitTraceback /\ InitFilter /\ InitApi

\* ----------------------------------------------------------------- actions
\* A caller submits a source through Execute or ExecuteUntilLastStatement.
Call ==
  /\ alive /\ fatal = NoFatal /\ stack = <<>> /\ calls < MaxCalls
  /\ \E mode \in {"execute", "until_last"} :
       stack' = <<NewFrame(mode, TopSource)>>
  /\ calls' = calls + 1
  /\ UNCHANGED <<tfState, relations, functions, imported, fatal, alive,
                 bodyRuns, runLog, lastCreated, tables, listing, elog, aux>>

\* What parser.Next() finds: a statement, the end of the source, or a
\* syntax error.
EndOfSource == [NoStmt EXCEPT !.kind = "End"]
SyntaxError == [NoStmt EXCEPT !.kind = "SyntaxError"]

Yield(f, s) ==
  IF s.kind \in {"End", "SyntaxError"}
  THEN [f EXCEPT !.pc = "end", !.parserOk = (s.kind = "End")]
  ELSE [f EXCEPT !.stmt = s, !.idx = @ + 1, !.pc = "handle"]

\* while (parser.Next()): for a top-level source any statement of the
\* alphabet S may come next; a module file yields its statements in order.
ParserNext(S) ==
  /\ Running /\ Top.pc = "next"
  /\ \E s \in IF Top.src # TopSource
              THEN {IF Top.idx < Len(ModuleSql(Top.src))
                    THEN ModuleSql(Top.src)[Top.idx + 1] ELSE EndOfSource}
              ELSE (IF Top.idx < MaxStmts THEN S ELSE {})
                     \cup {EndOfSource, SyntaxError} :
       stack' = SetTop(Yield(Top, s))
  /\ UNCHANGED <<tfState, relations, functions, imported, calls, fatal, alive,
                 bodyRuns, runLog, lastCreated, tables, listing, elog, aux>>

\* The dispatch on the statement (lines 207-227): a CreateFunction is
\* executed at once and replaced by the SQL ExecuteCreateFunction returns;
\* a CreateTable is registered at once and replaced by SELECT 0 WHERE 0;
\* an SqliteSql statement is used as it is.
Dispatch(s, tf, rel, fns, tabs) ==
  LET same == [status |-> "ok", source |-> s, tf |-> tf, rel |-> rel,
               fns |-> fns, fatal |-> NoFatal, tables |-> tabs]
  IN
  IF s.kind = "CreateFunction"
  THEN LET r == ExecuteCreateFunction(s, tf, rel, fns) IN
       [same EXCEPT !.status = r.status, !.source = r.source, !.tf = r.tf,
                    !.rel = r.rel, !.fns = r.fns, !.fatal = r.fatal]
  ELSE IF s.kind = "CreateTable"
  THEN LET r == RegisterSqlTable(s.name, s.query, tabs) IN
       [same EXCEPT !.status = r.status, !.tables = r.tables,
                    !.source = IF r.status = "ok" THEN Placeholder ELSE NoStmt]
  ELSE same

Handle ==
  /\ Running /\ Top.pc = "handle"
  /\ LET r == Dispatch(Top.stmt, tfState, relations, functions, tables) IN
       /\ tfState' = r.tf
       /\ tables' = r.tables
       /\ relations' = r.rel
       /\ functions' = r.fns
       /\ fatal' = r.fatal
       /\ stack' = SetTop(IF r.fatal # NoFatal THEN Top
                          ELSE IF r.status = "ok"
                               THEN [Top EXCEPT !.source = r.source,
                                                !.pc = "prepare"]
                          ELSE Fail(Top, r.status))
       /\ lastCreated' =
            IF /\ Top.stmt.kind = "CreateFunction" /\ ~Top.stmt.is_table
               /\ r.status = "ok"
            THEN [lastCreated EXCEPT
                    ![<<Top.stmt.name, Len(Top.stmt.body.args)>>] = Top.stmt.body.tag]
            ELSE lastCreated
  /\ UNCHANGED <<imported, calls, alive, bodyRuns, runLog, listing, elog, aux>>

\* PrepareResult going on to the next statement when the engine does not
\* prepare this one.
PrepareResultSkippingFailed(f, ok) ==
  IF ok THEN [f EXCEPT !.cur = Prepared(f.source), !.pc = "drain"]
  ELSE [f EXCEPT !.stmt = NoStmt, !.source = NoStmt, !.pc = "next"]

\* RETURN_IF_ERROR(stmt.status()); cur_stmt = std::move(stmt);
PrepareResult(f, ok) ==
  IF ok THEN [f EXCEPT !.cur = Prepared(f.source), !.pc = "drain"]
  ELSE Fail(f, "engine_error")

\* engine_->PrepareStatement(source); a failure returns at once.
Prepare ==
  /\ Running /\ Top.pc = "prepare"
  /\ stack' = SetTop(PrepareResult(Top, PrepareStatement(Top.source, relations,
                                                        functions)))
  /\ UNCHANGED <<tfState, relations, functions, imported, calls, fatal, alive,
                 bodyRuns, runLog, lastCreated, tables, listing, elog, aux>>

\* DrainPrevious with the loop left out: the previous statement stays as
\* its first step left it.
DrainPreviousSkipped(res) == res

\* DrainPrevious testing IsDone the wrong way round: only an exhausted
\* statement enters the loop.
DrainPreviousWhenDone(res) ==
  IF res.some /\ IsDone(res) THEN DrainStmt(res) ELSE res

\* if (res && !res->IsDone()) { while (res->Step()) {} }
DrainPrevious(res) ==
  IF res.some /\ ~IsDone(res) THEN DrainStmt(res) ELSE res

Drain ==
  /\ Running /\ Top.pc = "drain"
  /\ LET d == DrainPrevious(Top.res) IN
       stack' = SetTop(IF d.status # "ok"
                       THEN Fail([Top EXCEPT !.res = d], d.status)
                       ELSE [Top EXCEPT !.res = d, !.pc = "step"])
  /\ UNCHANGED <<tfState, relations, functions, imported, calls, fatal, alive,
                 bodyRuns, runLog, lastCreated, tables, listing, elog, aux>>

\* FirstStep stepping the statement until it is exhausted.
FirstStepToExhaustion(p, tf, rel, fns) ==
  LET e == StepEffect(p.sql, tf, rel) IN
  [tf |-> e.tf, rel |-> e.rel, fatal |-> e.fatal,
   stmt |-> IF e.status = "ok" THEN DrainStmt(StepRows(p))
            ELSE [p EXCEPT !.steps = 1, !.status = e.status]]

\* The first step of a statement other than IMPORT: its schema effect, the
\* value a function call returns, and the first row or the end.
FirstStep(p, tf, rel, fns) ==
  LET e == StepEffect(p.sql, tf, rel)
      ctx == fns[<<p.sql.name, Len(p.sql.args)>>]
      status == IF p.sql.op = "call" /\ ~ctx.valid THEN "engine_error"
                ELSE e.status
      v == IF p.sql.op = "call" THEN ctx.tag ELSE ""
  IN [tf |-> e.tf, rel |-> e.rel, fatal |-> e.fatal,
      stmt |-> IF status = "ok" THEN [StepRows(p) EXCEPT !.value = v]
               ELSE [p EXCEPT !.steps = 1, !.status = status]]

\* res = std::move(cur_stmt); res->Step(). The step of SELECT IMPORT(key)
\* runs Import::Run, which returns at once or calls Execute on the body of
\* the file: the new call is pushed and this one waits for it.
Step ==
  /\ Running /\ Top.pc = "step"
  /\ LET p == Top.cur
         moved == [Top EXCEPT !.cur = NoPrepared,
                              !.undrained = IF Top.res.some /\ ~IsDone(Top.res)
                                            THEN @ + 1 ELSE @]
         entry == ImportEntry(p.sql.args, imported)
     IN
     IF p.sql.op = "import" /\ entry = "execute"
     THEN /\ Len(stack) < MaxDepth
          /\ stack' = Append(SetTop([moved EXCEPT !.res = p, !.pc = "wait"]),
                             [NewFrame("execute", p.sql.args[1].key) EXCEPT
                                !.entry = <<imported, tfState, relations,
                                            functions, tables>>])
          /\ bodyRuns' = [bodyRuns EXCEPT ![p.sql.args[1].key] = @ + 1]
          /\ UNCHANGED <<tfState, relations, fatal, runLog>>
     ELSE IF p.sql.op = "import"
     THEN /\ stack' = SetTop(
               IF entry = "noop"
               THEN [moved EXCEPT !.res = StepRows(p), !.pc = "count"]
               ELSE Fail([moved EXCEPT !.res = [p EXCEPT !.steps = 1,
                                                         !.status = entry]],
                         entry))
          /\ runLog' = IF entry = "noop"
                       THEN [runLog EXCEPT ![p.sql.args[1].key] = Append(@, "ok")]
                       ELSE runLog
          /\ UNCHANGED <<tfState, relations, fatal, bodyRuns>>
     ELSE LET r == FirstStep(p, tfState, relations, functions) IN
          /\ tfState' = r.tf
          /\ relations' = r.rel
          /\ fatal' = r.fatal
          /\ stack' = SetTop(IF r.fatal # NoFatal THEN Top
                             ELSE IF r.stmt.status # "ok"
                                  THEN Fail([moved EXCEPT !.res = r.stmt],
                                            r.stmt.status)
                             ELSE [moved EXCEPT !.res = r.stmt, !.pc = "count"])
          /\ UNCHANGED <<bodyRuns, runLog>>
  /\ UNCHANGED <<functions, imported, calls, alive, lastCreated, tables, listing, elog, aux>>

\* IncrementCountForStmt(*res, &stats), then the next iteration (the
\* statement and its source go out of scope).
Count ==
  /\ Running /\ Top.pc = "count"
  /\ stack' = SetTop([Top EXCEPT
                        !.stats = IncrementCountForStmt(Top.res, Top.stats),
                        !.stmt = NoStmt, !.source = NoStmt, !.pc = "next"])
  /\ UNCHANGED <<tfState, relations, functions, imported, calls, fatal, alive,
                 bodyRuns, runLog, lastCreated, tables, listing, elog, aux>>

\* AfterLoop testing for a statement before the parser's status.
AfterLoopStatementFirst(f) ==
  IF ~f.res.some THEN Fail(f, "no_valid_sql")
  ELSE IF ~f.parserOk THEN Fail(f, "syntax_error")
  ELSE [f EXCEPT !.pc = "returned"]

\* After the loop (lines 274-284): the parser's error, "No valid SQL to
\* run", or the last statement and the stats.
AfterLoop(f) ==
  IF ~f.parserOk THEN Fail(f, "syntax_error")
  ELSE IF ~f.res.some THEN Fail(f, "no_valid_sql")
  ELSE [f EXCEPT !.pc = "returned"]

EndLoop ==
  /\ Running /\ Top.pc = "end"
  /\ stack' = SetTop(AfterLoop(Top))
  /\ UNCHANGED <<tfState, relations, functions, imported, calls, fatal, alive,
                 bodyRuns, runLog, lastCreated, tables, listing, elog, aux>>

\* DrainLast without the loop: the last statement is returned as its first
\* step left it.
DrainLastSkipped(res) == res

\* Execute after ExecuteUntilLastStatement returned: drain the last
\* statement. A direct caller of ExecuteUntilLastStatement gets the
\* statement as it is.
DrainLast(res) == IF IsDone(res) THEN res ELSE DrainStmt(res)

Finish ==
  /\ Running /\ Top.pc = "returned"
  /\ LET d == IF Top.mode = "execute" THEN DrainLast(Top.res) ELSE Top.res IN
       stack' = SetTop(Fail([Top EXCEPT !.res = d], d.status))
  /\ UNCHANGED <<tfState, relations, functions, imported, calls, fatal, alive,
                 bodyRuns, runLog, lastCreated, tables, listing, elog, aux>>

\* The call returns. A top-level call hands its result to the caller; a
\* call made by Import::Run resumes it: Run fails with the error of the
\* body or with "Imported file returning values", or sets the imported flag.
Return ==
  /\ Running /\ Top.pc = "done"
  /\ IF Len(stack) = 1
     THEN /\ stack' = <<>>
          /\ UNCHANGED <<imported, runLog>>
     ELSE LET caller == stack[Len(stack) - 1]
              run == ImportExit(Top.status, Top.stats)
              popped == SubSeq(stack, 1, Len(stack) - 1)
          IN
          /\ imported' = SetImported(imported, Top.src, run)
          /\ runLog' = [runLog EXCEPT ![Top.src] =
                          Append(@, IF run = "ok" THEN "ok" ELSE "failed")]
          /\ stack' = [popped EXCEPT ![Len(popped)] =
                         IF run = "ok"
                         THEN [caller EXCEPT !.res = StepRows(caller.res),
                                             !.pc = "count"]
                         ELSE Fail([caller EXCEPT !.res = [caller.res EXCEPT
                                       !.steps = 1, !.status = run]], run)]
  /\ UNCHANGED <<tfState, relations, functions, calls, fatal, alive, bodyRuns,
                 lastCreated, tables, listing, elog, aux>>

\* ~PerfettoSqlEngine: engine_.reset() destroys every relation, running
\* OnTableFunctionDestroyed for each created_table_function instance, then
\* PERFETTO_CHECK(created_table_function_state_.size() == 0).
DestroyedStates(tf, rel) ==
  [l \in LowerNames |-> IF rel[l].kind = "ctf"
                        THEN OnTableFunctionDestroyed(tf, rel[l].name).tf[l]
                        ELSE tf[l]]

Destroy ==
  /\ alive /\ fatal = NoFatal /\ stack = <<>>
  /\ alive' = FALSE
  /\ tfState' = DestroyedStates(tfState, relations)
  /\ relations' = [l \in LowerNames |-> NoRelation]
  /\ fatal' = IF \E l \in LowerNames :
                    /\ relations[l].kind = "ctf"
                    /\ ~tfState[l].present
              THEN "OnTableFunctionDestroyed"
              ELSE IF \E l \in LowerNames :
                        DestroyedStates(tfState, relations)[l].present
                   THEN "~PerfettoSqlEngine"
              ELSE NoFatal
  /\ tables' = [n \in TableNames |-> NoTable]
  /\ UNCHANGED <<functions, imported, stack, calls, bodyRuns, runLog,
                 lastCreated, listing, elog, aux>>

\* A caller registers a static table between two pipeline calls; the
\* insert into perfetto_tables succeeds or fails.
RegisterTable ==
  /\ alive /\ fatal = NoFatal /\ stack = <<>>
  /\ \E name \in StaticNames, inserted \in BOOLEAN :
       LET r == RegisterTableEffect(name, inserted, tables, listing, elog) IN
       /\ tables' = r.tables
       /\ listing' = r.listing
       /\ elog' = r.elog
  /\ UNCHANGED <<tfState, relations, functions, imported, stack, calls, fatal,
                 alive, bodyRuns, runLog, lastCreated, aux>>

\* A caller asks for the memoization of a function between two pipeline
\* calls.
Memoize ==
  /\ alive /\ fatal = NoFatal /\ stack = <<>>
  /\ \E name \in FnNames :
       LET r == EnableSqlFunctionMemoization(name, functions) IN
       /\ functions' = r.fns
       /\ memoRet' = [name |-> name, status |-> r.status]
  /\ UNCHANGED <<tfState, relations, imported, stack, calls, fatal, alive,
                 bodyRuns, runLog, lastCreated, tables, listing, elog, tbVars,
                 qeVars, tfCall, apiVars>>

\* The pipeline over the statements of alphabet S.
Pipeline(S) ==
  \/ Call
  \/ ParserNext(S)
  \/ Handle
  \/ Prepare
  \/ Drain
  \/ Step
  \/ Count
  \/ EndLoop
  \/ Finish
  \/ Return
  \/ Destroy

\* --------------------------------------------------------------- alphabets
\* Passthrough SELECTs: up to MaxRows rows, failing at no step or at one of
\* the steps they take.
Selects ==
  {Select(x[1], x[2]) :
     x \in {y \in (0..MaxRows) \X (0..(MaxRows + 1)) : y[2] <= y[1] + 1}}

\* Table-function bodies: two that pass every check (a table of one column
\* c) and one that uses the parameter :x.
TableBody(tag) ==
  [NoBody EXCEPT !.tag = tag, !.rets = <<"c">>, !.cols = <<"c">>]
TableBodies ==
  {TableBody("b1"), TableBody("b2"),
   [TableBody("b3") EXCEPT !.params = <<<<":", "x">>>>]}

\* The statements of the table-function scenarios: create (or replace) a
\* table function, create and drop a relation, SELECTs, and SQL the engine
\* rejects.
TableStmts ==
  {CreateFunction(n, r, TRUE, b) : n \in TFNames, r \in BOOLEAN, b \in TableBodies}
  \cup {SqliteSql(op, n) : op \in {"create_table", "drop_table"}, n \in TFNames}
  \cup Selects
  \cup {SqliteSql("bad", "")}

Next == Pipeline(TableStmts)
Spec == Init /\ [][Next]_vars

\* The statements of the import scenarios: IMPORT of every file of the
\* module map, of an unknown module and an unknown file, with no argument
\* and with an integer; and the creation and removal of the table that the
\* file "ok" creates.
ImportStmts ==
  {ImportStmt(<<StringValue(k)>>) : k \in ImportKeys \cup {<<"x", "y">>, <<"m", "zz">>}}
  \cup {ImportStmt(<<>>), ImportStmt(<<IntValue>>)}
  \cup {SqliteSql("create_table", "g"), SqliteSql("drop_table", "g")}

NextImport == Pipeline(ImportStmts)
SpecImport == Init /\ [][NextImport]_vars

\* The statements of the validation scenarios: CREATE PERFETTO FUNCTION f
\* ... RETURNS TABLE over every body with up to MaxParams parameters, drawn
\* from the nameless one and :x, @x, $x, $y, up to MaxCols output columns,
\* one or two declared return columns and a prototype with or without the
\* argument x; and bodies the parsers or the engine reject.
SeqsUpTo(S, n) == UNION {[1..k -> S] : k \in 0..n}
ParamSet == {Nameless, <<":", "x">>, <<"@", "x">>, <<"$", "x">>, <<"$", "y">>}
CheckedBodies ==
  {[NoBody EXCEPT !.tag = "b", !.args = a, !.rets = r, !.params = p, !.cols = c] :
     a \in {<<>>, <<"x">>}, r \in {<<"c">>, <<"c", "d">>},
     p \in SeqsUpTo(ParamSet, MaxParams), c \in SeqsUpTo({"c", "d"}, MaxCols)}
RejectedBodies ==
  {[TableBody("b") EXCEPT !.protoErr = "name"],
   [TableBody("b") EXCEPT !.protoErr = "args"],
   [TableBody("b") EXCEPT !.retOk = FALSE],
   [TableBody("b") EXCEPT !.prepOk = FALSE]}
ValidationStmts ==
  {CreateFunction("f", r, TRUE, b) :
     r \in BOOLEAN, b \in CheckedBodies \cup RejectedBodies}

NextValidation == Pipeline(ValidationStmts)
SpecValidation == Init /\ [][NextValidation]_vars

\* The statements of the scalar-function scenarios: CREATE [OR REPLACE]
\* PERFETTO FUNCTION fn over two bodies of one argument, a body that calls
\* fn itself, a body that calls the function h, a body of two arguments and
\* bodies the parsers or the engine reject; the creation of h; and calls of
\* fn with one and with two arguments.
ScalarBody(tag, args) == [NoBody EXCEPT !.tag = tag, !.args = args]
ScalarBodies ==
  {ScalarBody("A", <<"a">>), ScalarBody("B", <<"a">>),
   [ScalarBody("R", <<"a">>) EXCEPT !.refs = {<<"fn", 1>>}],
   [ScalarBody("U", <<"a">>) EXCEPT !.refs = {<<"h", 1>>}],
   ScalarBody("A2", <<"a", "b">>),
   [ScalarBody("P", <<"a">>) EXCEPT !.protoErr = "args"],
   [ScalarBody("T", <<"a">>) EXCEPT !.retOk = FALSE],
   [ScalarBody("S", <<"a">>) EXCEPT !.prepOk = FALSE]}
CallStmt(name, args) ==
  [NoStmt EXCEPT !.kind = "SqliteSql", !.op = "call", !.name = name,
                 !.rows = 1, !.ncols = 1, !.args = args]
ScalarStmts ==
  {CreateFunction("fn", r, FALSE, b) : r \in BOOLEAN, b \in ScalarBodies}
  \cup {CreateFunction("h", FALSE, FALSE, ScalarBody("H", <<"a">>))}
  \cup {CallStmt("fn", <<IntValue>>), CallStmt("fn", <<IntValue, IntValue>>)}

NextScalar == Pipeline(ScalarStmts)
SpecScalar == Init /\ [][NextScalar]_vars

\* The statements of the memoization scenarios: CREATE [OR REPLACE]
\* PERFETTO FUNCTION fn with one argument, with two arguments and with a
\* body the engine does not prepare, and the creation of h; between the
\* calls, EnableSqlFunctionMemoization of fn or of h.
MemoStmts ==
  {CreateFunction("fn", r, FALSE, b) :
     r \in BOOLEAN,
     b \in {ScalarBody("A", <<"a">>), ScalarBody("A2", <<"a", "b">>),
            [ScalarBody("S", <<"a">>) EXCEPT !.prepOk = FALSE]}}
  \cup {CreateFunction("h", FALSE, FALSE, ScalarBody("H", <<"a">>))}

NextMemo == Pipeline(MemoStmts) \/ Memoize
SpecMemo == Init /\ [][NextMemo]_vars

\* The statements of the table scenarios: CREATE PERFETTO TABLE t AS
\* <query> over queries of up to MaxCols named columns, yielding up to
\* MaxRows rows whose cells run through null, integer, float, text and
\* blob, failing at no step or at one of the steps taken; the same queries
\* with a finalization that fails; queries without rows one of whose
\* columns has an empty name; and a query the engine does not prepare.
CellTypes == <<"null", "integer", "float", "text", "blob">>
RowOf(n, k) ==
  [i \in 1..n |->
     LET type == CellTypes[((i + k) % Len(CellTypes)) + 1] IN
     [type |-> type, val |-> IF type = "null" THEN 0 ELSE 10 * k + i]]
RowsOf(n) == {RowOf(n, k) : k \in 1..Len(CellTypes)}
NameLists(n) ==
  {[i \in 1..n |-> IF i = j THEN "" ELSE "c" \o ToString(i)] : j \in 1..n}
Named(n) == [i \in 1..n |-> "c" \o ToString(i)]
Queries ==
  UNION {{[NoQuery EXCEPT !.names = Named(n), !.rows = rs, !.errAt = e] :
            rs \in SeqsUpTo(RowsOf(n), MaxRows), e \in 0..(MaxRows + 1)}
         \cup {[NoQuery EXCEPT !.names = Named(n), !.rows = rs, !.finalOk = FALSE] :
                 rs \in SeqsUpTo(RowsOf(n), MaxRows)}
         \cup {[NoQuery EXCEPT !.names = nm] : nm \in NameLists(n)} :
         n \in 1..MaxCols}
CreateTableStmts ==
  {CreateTable("t", q) : q \in {x \in Queries : x.errAt <= Len(x.rows) + 1}}
  \cup {CreateTable("t", [NoQuery EXCEPT !.names = <<"c1">>, !.prepOk = FALSE])}

NextTable == Pipeline(CreateTableStmts) \/ RegisterTable
SpecTable == Init /\ [][NextTable]_vars

\* The statements of the accounting scenarios: SELECTs of up to MaxRows
\* rows and one or two columns whose first column carries the VOID pointer
\* or not and is named suppress_query_output or not.
CountStmts ==
  {[Select(r, 0) EXCEPT !.ncols = n, !.void = v, !.suppress = u] :
     r \in 0..MaxRows, n \in 1..2, v \in BOOLEAN, u \in BOOLEAN}

NextCount == Pipeline(CountStmts)
SpecCount == Init /\ [][NextCount]_vars

\* The statements of the statistics scenarios: the creation of a scalar
\* function and of a table (both executed by the pipeline itself, one of
\* each failing), SELECTs with and without rows, failing at no step or at
\* one of the steps taken, and SQL the engine rejects.
StatsStmts ==
  {CreateFunction("fn", TRUE, FALSE, b) :
     b \in {ScalarBody("A", <<"a">>), [ScalarBody("T", <<"a">>) EXCEPT !.retOk = FALSE]}}
  \cup {CreateTable("t", q) :
          q \in {[NoQuery EXCEPT !.names = <<"c1">>, !.rows = <<RowOf(1, 1)>>],
                 [NoQuery EXCEPT !.names = <<"">>]}}
  \cup Selects
  \cup {SqliteSql("bad", "")}

NextStats == Pipeline(StatsStmts)
SpecStats == Init /\ [][NextStats]_vars

\* The state maps a created_table_function instance can find when it is
\* created or destroyed: under each lowercase key no entry, or the state
\* of a function created under a name with that lowercase form.
Registries ==
  [LowerNames -> {NoState} \cup {NewState(n, b) : n \in TFNames, b \in TableBodies}]
InitRegistry ==
  /\ tfState \in {tf \in Registries :
                    \A l \in LowerNames : tf[l].present => ToLower(tf[l].name) = l}
  /\ relations = [l \in LowerNames |-> NoRelation]
  /\ functions = [k \in FnKeys |-> NoCtx]
  /\ imported = [k \in ImportKeys |-> FALSE]
  /\ stack = <<>> /\ calls = 0 /\ fatal = NoFatal /\ alive = TRUE
  /\ bodyRuns = [k \in ImportKeys |-> 0]
  /\ runLog = [k \in ImportKeys |-> <<>>]
  /\ lastCreated = [k \in FnKeys |-> ""]
  /\ tables = [n \in TableNames |-> NoTable]
  /\ listing = {} /\ elog = {}
  /\ memoRet = NoCall /\ tfCall = NoTfCall
  /\ InitTraceback /\ InitFilter /\ InitApi

\* A created_table_function instance is created under a name and looks
\* its state up.
GetState ==
  /\ alive /\ fatal = NoFatal
  /\ \E name \in TFNames :
       LET r == GetTableFunctionState(tfState, name) IN
       /\ fatal' = r.fatal
       /\ tfCall' = [op |-> "get", name |-> name, before |-> tfState, got |-> r.state]
  /\ UNCHANGED <<tfState, relations, functions, imported, stack, calls, alive,
                 bodyRuns, runLog, lastCreated, tables, listing, elog, memoRet,
                 tbVars, qeVars, apiVars>>

\* The instance created under a name is destroyed.
InstanceDestroyed ==
  /\ alive /\ fatal = NoFatal
  /\ \E name \in TFNames :
       LET r == OnTableFunctionDestroyed(tfState, name) IN
       /\ tfState' = r.tf
       /\ fatal' = r.fatal
       /\ tfCall' = [op |-> "destroyed", name |-> name, before |-> tfState,
                     got |-> NoState]
  /\ UNCHANGED <<relations, functions, imported, stack, calls, alive, bodyRuns,
                 runLog, lastCreated, tables, listing, elog, memoRet, tbVars,
                 qeVars, apiVars>>

NextRegistry == GetState \/ InstanceDestroyed
SpecRegistry == InitRegistry /\ [][NextRegistry]_vars

\* The statuses handed to AddTracebackIfNeeded at lines 210 and 214: ok,
\* the errors RegisterSqlTable, RegisterSqlFunction and
\* ExecuteCreateFunction make, and the status of a nested Execute that
\* already went through AddTracebackIfNeeded.
Messages ==
  {"column name must not be empty", "bytes columns are not supported",
   "unknown return type specified", "Table function already exists"}
Statuses ==
  {OkStatus}
  \cup {ErrStatus(<<m>>) : m \in Messages}
  \cup {AddTracebackIfNeeded(ErrStatus(<<m>>), src) : m \in Messages, src \in Sources}

\* The engine variables, which the applications of AddTracebackIfNeeded
\* leave alone.
engine ==
  <<tfState, relations, functions, imported, stack, calls, fatal, alive,
    bodyRuns, runLog, lastCreated, tables, listing, elog, memoRet, tfCall>>

\* status = AddTracebackIfNeeded(status, source), once more.
Wrap ==
  /\ Len(tbSources) < MaxWraps
  /\ \E source \in Sources :
       /\ tbStatus' = AddTracebackIfNeeded(tbStatus, source)
       /\ tbSources' = Append(tbSources, source)
  /\ UNCHANGED <<tbIn, engine, qeVars, apiVars>>

NextWrap == Wrap
\* Any of the statuses is handed over; nothing is wrapped yet.
InitWrap ==
  /\ InitEngine
  /\ tbIn \in Statuses /\ tbStatus = tbIn /\ tbSources = <<>>
  /\ InitFilter /\ InitApi
SpecWrap == InitWrap /\ [][NextWrap]_vars

\* APIInterface<T>::APIInterface: impl_(Impl::GetShared(args...)).
Construct ==
  /\ Lock(weak_instance, impl_) # NoImpl \/ impls < MaxImpls
  /\ \E o \in 1..MaxObjects :
       /\ impl_[o] = NoImpl
       /\ LET r == GetShared(weak_instance, impl_, impls) IN
            /\ impl_' = [impl_ EXCEPT ![o] = r.result]
            /\ weak_instance' = r.weak
            /\ impls' = r.impls
  /\ UNCHANGED <<engine, tbVars, qeVars>>

\* The implicit copy constructor: the new object shares impl_.
Copy ==
  /\ \E o \in 1..MaxObjects, from \in 1..MaxObjects :
       /\ impl_[o] = NoImpl /\ impl_[from] # NoImpl
       /\ impl_' = [impl_ EXCEPT ![o] = impl_[from]]
  /\ UNCHANGED <<weak_instance, impls, engine, tbVars, qeVars>>

\* An API object is destroyed: impl_ lets go of its Impl, which is
\* deleted with its last owner.
Destruct ==
  /\ \E o \in 1..MaxObjects :
       /\ impl_[o] # NoImpl
       /\ impl_' = [impl_ EXCEPT ![o] = NoImpl]
  /\ UNCHANGED <<weak_instance, impls, engine, tbVars, qeVars>>

NextApi == Construct \/ Copy \/ Destruct
SpecApi == Init /\ [][NextApi]_vars

\* The cases of query_executor_unittest.cc: the function called, the
\* storage, the overlays, the constraint, the candidate range (for Filter,
\* the row count), the size asserted and the values asserted for Get(0),
\* Get(1), ... The storage of the NullOverlay cases is declared with ten
\* slots over a vector of five; the five are modelled.
Case(test, fn, storage, overlays, op, value, end, size, gets) ==
  [test |-> test, fn |-> fn, size |-> size, gets |-> gets,
   columns |-> <<SimpleColumn(overlays, storage)>>, row_count |-> end,
   c_vec |-> <<Constraint(0, op, value)>>, rm |-> Range(0, end)]
Tests ==
  LET iota5 == <<0, 1, 2, 3, 4>>
      mod5 == <<0, 1, 2, 3, 4, 0, 1, 2, 3, 4>>
      nulls == <<NullOverlay(<<1, 1, 0, 1, 1, 0, 0, 0, 1, 0>>)>>
      both == <<NullOverlay(<<1, 1, 0, 1, 1, 0, 1, 1, 0>>),
                SelectorOverlay(<<1, 1, 0, 1, 1, 0, 1, 1, 0, 0>>)>>
  IN
  {Case("OnlyStorageRange", "bounded", <<1, 2, 3, 4, 5>>, <<>>, "ge", 3, 5, 3, <<2>>),
   Case("OnlyStorageRangeIsNull", "bounded", <<1, 2, 3, 4, 5>>, <<>>, "is_null", 3, 5, 0, <<>>),
   Case("OnlyStorageIndex", "indexed", mod5, <<>>, "lt", 2, 10, 4, <<0, 1, 5, 6>>),
   Case("OnlyStorageIndexIsNull", "indexed", <<1, 2, 3, 4, 5>>, <<>>, "is_null", 3, 5, 0, <<>>),
   Case("NullOverlayBounds", "bounded", iota5, nulls, "ge", 3, 10, 2, <<4, 8>>),
   Case("NullOverlayRangeIsNull", "bounded", iota5, nulls, "is_null", 3, 10, 5,
        <<2, 5, 6, 7, 9>>),
   Case("NullOverlayIndex", "indexed", <<0, 1, 2, 0, 1, 2>>,
        <<NullOverlay(<<1, 1, 0, 1, 1, 0, 1, 0, 0, 1>>)>>, "ge", 1, 10, 4, <<1, 3, 6, 9>>),
   Case("NullOverlayIndexIsNull", "indexed", iota5, nulls, "is_null", 3, 10, 5,
        <<2, 5, 6, 7, 9>>),
   Case("SelectorOverlayBounds", "bounded", iota5,
        <<SelectorOverlay(<<1, 1, 0, 0, 1>>)>>, "gt", 1, 3, 1, <<2>>),
   Case("SelectorOverlayIndex", "indexed", mod5,
        <<SelectorOverlay(<<1, 1, 0, 1, 1, 0, 1, 0, 0, 1>>)>>, "ge", 2, 6, 3, <<2, 3, 5>>),
   Case("SingleConstraintWithNullAndSelector", "filter", mod5, both, "ge", 2, 9, 3,
        <<3, 4, 7>>),
   Case("IsNull", "filter", mod5, both, "is_null", 0, 9, 3, <<2, 5, 8>>)}

\* The enumerated columns: a storage of up to MaxSlots slots under no
\* overlay, a null overlay, a selector overlay, or a null overlay over a
\* selector overlay, each overlay fitting what lies under it.
BitVectors(n) == [1..n -> {0, 1}]
NullOverlays(inner) ==
  {NullOverlay(bv) : bv \in {b \in UNION {BitVectors(n) : n \in 1..MaxBits} :
                               CountSetBits(b, Len(b)) = inner}}
Overlays(slots) ==
  {<<>>}
  \cup {<<o>> : o \in NullOverlays(slots)}
  \cup {<<SelectorOverlay(bv)>> : bv \in BitVectors(slots)}
  \cup UNION {{<<o, SelectorOverlay(bv)>> : o \in NullOverlays(CountSetBits(bv, slots))} :
                bv \in BitVectors(slots)}
Columns ==
  UNION {{SimpleColumn(ov, st) : ov \in Overlays(n), st \in [1..n -> 0..MaxVal]} :
           n \in 1..MaxSlots}
Alternating(col) ==
  [col EXCEPT !.storage = [i \in DOMAIN col.storage |-> (i - 1) % (MaxVal + 1)]]
Constraints(col_idx) ==
  {Constraint(col_idx, op, value) : op \in FilterOps, value \in 0..MaxVal}

\* The executors and arguments of the filter scenarios: the cases of the
\* unit test; every enumerated column with one constraint and a candidate
\* range within its rows; and two columns of MaxBits rows over storages
\* 0, 1, 0, ... with a constraint on each, the first any such enumerated
\* column, the second one under no overlay or under a null overlay.
InitExecutor ==
  \/ \E t \in Tests : qe = [t EXCEPT !.fn = "", !.size = 0, !.gets = <<>>]
  \/ \E col \in Columns, c \in Constraints(0) :
       \E start \in 0..ColumnSize(col) : \E end \in start..ColumnSize(col) :
         qe = [NoExecutor EXCEPT !.columns = <<col>>, !.row_count = ColumnSize(col),
                                 !.c_vec = <<c>>, !.rm = Range(start, end)]
  \/ \E col1 \in {Alternating(x) : x \in Columns},
        col2 \in {Alternating(x) :
                    x \in Columns \cup {SimpleColumn(<<>>, [i \in 1..MaxBits |-> 0])}} :
       /\ ColumnSize(col1) = MaxBits /\ ColumnSize(col2) = MaxBits
       /\ Len(col2.overlays) <= 1
       /\ \A k \in 1..Len(col2.overlays) : col2.overlays[k].kind = "null"
       /\ \E c1 \in Constraints(0), c2 \in Constraints(1) :
            /\ c1.value = MaxVal /\ c2.value = MaxVal
            /\ qe = [NoExecutor EXCEPT !.columns = <<col1, col2>>,
                                       !.row_count = MaxBits, !.c_vec = <<c1, c2>>,
                                       !.rm = Range(0, MaxBits)]

\* The caller runs one constraint over the candidate range with the
\* bounds strategy (BoundedColumnFilterForTesting) or with the indexed
\* strategy (IndexedColumnFilterForTesting).
BoundedColumnFilterForTesting ==
  /\ qeCalls = <<>> /\ Len(qe.c_vec) = 1
  /\ qeCalls' = <<[fn |-> "bounded", c_vec |-> qe.c_vec,
                   steps |-> <<qe.rm, BoundedColumnFilter(qe.c_vec[1], qe.columns[1], qe.rm)>>]>>
  /\ UNCHANGED <<qe, engine, tbVars, apiVars>>

IndexedColumnFilterForTesting ==
  /\ qeCalls = <<>> /\ Len(qe.c_vec) = 1
  /\ qeCalls' = <<[fn |-> "indexed", c_vec |-> qe.c_vec,
                   steps |-> <<qe.rm, IndexedColumnFilter(qe.c_vec[1], qe.columns[1], qe.rm)>>]>>
  /\ UNCHANGED <<qe, engine, tbVars, apiVars>>

\* The caller runs exec.Filter over the constraints in one order or the
\* other, each order once.
FilterCall ==
  /\ Len(qeCalls) < MaxFilterCalls
  /\ \A k \in 1..Len(qeCalls) : qeCalls[k].fn = "filter"
  /\ \E c_vec \in {qe.c_vec, [k \in 1..Len(qe.c_vec) |-> qe.c_vec[Len(qe.c_vec) + 1 - k]]} :
       /\ \A k \in 1..Len(qeCalls) : qeCalls[k].c_vec # c_vec
       /\ qeCalls' = Append(qeCalls,
         [fn |-> "filter", c_vec |-> c_vec,
          steps |-> Filter(c_vec, qe.columns, <<Range(0, qe.row_count)>>)])
  /\ UNCHANGED <<qe, engine, tbVars, apiVars>>

NextFilter ==
  \/ BoundedColumnFilterForTesting
  \/ IndexedColumnFilterForTesting
  \/ FilterCall
\* An executor is built; no filter function has been called.
InitQuery ==
  /\ InitEngine /\ InitTraceback
  /\ InitExecutor /\ qeCalls = <<>> /\ InitApi
SpecFilter == InitQuery /\ [][NextFilter]_vars

\* ================================================================== claims

\* ------------------------------------------------------------------- C1
\* C1, as stated: whenever a statement has just been prepared, the statement
\* before it in the same call (if any) has been stepped to exhaustion.
DrainBeforeNextPrepare ==
  \A i \in 1..Len(stack) :
    stack[i].pc = "drain" =>
      (~stack[i].res.some \/ IsDone(stack[i].res))

\* C1, amended: whenever a prepared statement is about to take its first
\* step, the statement before it in the same call (if any) has been stepped
\* to exhaustion.
DrainBeforeNextFirstStep ==
  \A i \in 1..Len(stack) :
    stack[i].pc = "step" =>
      (~stack[i].res.some \/ IsDone(stack[i].res))

\* A statement that still had a row after its first step has been drained
\* and its successor is about to be stepped.
DrainedBeforeStepReached ==
  /\ stack # <<>>
  /\ Top.pc = "step"
  /\ Top.res.some /\ Top.res.sql.rows >= 1 /\ Top.res.steps > 1
  /\ IsDone(Top.res)

\* ------------------------------------------------------------------- C2
\* Import::Run is about to be called on key k: the first step of
\* SELECT IMPORT(k) is next.
RunCalledOn(k) ==
  /\ Running
  /\ Top.pc = "step"
  /\ Top.cur.sql.op = "import"
  /\ Top.cur.sql.args = <<StringValue(k)>>

\* C2: once a call of Import::Run on a key has succeeded, the body has been
\* executed exactly once however many calls follow, and every later call
\* succeeds; such a call returns without a pipeline call and without any
\* change to a module file or to the engine.
ImportTwiceRunsOnce ==
  /\ [](\A k \in ImportKeys :
          (runLog[k] # <<>> /\ runLog[k][1] = "ok") =>
             /\ bodyRuns[k] = 1
             /\ \A i \in DOMAIN runLog[k] : runLog[k][i] = "ok")
  /\ [][\A k \in ImportKeys :
          (RunCalledOn(k) /\ imported[k]) =>
             /\ Len(stack') = Len(stack)
             /\ Top'.pc = "count"
             /\ Top'.res.status = "ok"
             /\ UNCHANGED <<imported, bodyRuns, tfState, relations, functions>>]_vars

\* A top-level source imported a file that was imported before.
SecondImportReached ==
  \E k \in ImportKeys :
    /\ Len(stack) = 1
    /\ Top.pc = "count"
    /\ Top.res.sql.args = <<StringValue(k)>>
    /\ Len(runLog[k]) >= 2
    /\ runLog[k][1] = "ok"

\* ------------------------------------------------------------------- C3
\* C3, as stated: the body of a file is handed to the pipeline at most once.
BodyRunsAtMostOnce == \A k \in ImportKeys : bodyRuns[k] <= 1

\* C3, amended: once the imported flag of a file is set, its body is never
\* handed to the pipeline again.
NoRunOnceImported ==
  [][\A k \in ImportKeys : imported[k] => bodyRuns'[k] = bodyRuns[k]]_vars

\* The file "ok" was imported and then imported again by the body of "dep".
ImportedThenImportedByBody ==
  /\ imported[<<"m", "ok">>]
  /\ imported[<<"m", "dep">>]
  /\ runLog[<<"m", "ok">>] = <<"ok", "ok">>
  /\ bodyRuns[<<"m", "ok">>] = 1

\* ------------------------------------------------------------------- C4
\* A call of Execute or ExecuteUntilLastStatement has returned.
CallCompleted == calls > 0 /\ (stack = <<>> \/ Top.pc = "done")

\* C4: after every completed call the keys of the table-function state map
\* are the lowercase names of the live created_table_function instances.
RegistryMatchesEngine ==
  (alive /\ fatal = NoFatal /\ CallCompleted) =>
    \A l \in LowerNames : tfState[l].present <=> relations[l].kind = "ctf"

\* ------------------------------------------------------------------- C5
\* C5: no source reaches a fatal check of the table-function registry.
NoFatalCheck ==
  fatal \notin {"Insert", "GetTableFunctionState", "OnTableFunctionDestroyed"}

\* ------------------------------------------------------------------- C6
\* ExecuteCreateFunction is about to run on a table function whose body
\* passes validation and whose lowercase name is a key of the state map.
CreatingExistingTableFunction ==
  /\ Running
  /\ Top.pc = "handle"
  /\ Top.stmt.kind = "CreateFunction"
  /\ Top.stmt.is_table
  /\ ValidateTableFunction(Top.stmt.body) = "ok"
  /\ tfState[ToLower(Top.stmt.name)].present

\* C6: on an existing name, without replace the call fails with "already
\* exists" and leaves the map and the relation as they are; with replace,
\* the new state is inserted only after the existing instance was dropped
\* and its entry removed by the destruction callback.
ReplaceDropsBeforeInsert ==
  [][CreatingExistingTableFunction =>
       LET l == ToLower(Top.stmt.name) IN
       IF ~Top.stmt.replace
       THEN /\ Top'.pc = "done" /\ Top'.status = "already_exists"
            /\ UNCHANGED <<tfState, relations>>
       ELSE (fatal' = "Insert" \/ tfState'[l] # tfState[l] \/ Top'.pc = "prepare") =>
              /\ relations[l].kind = "ctf"
              /\ relations'[l].kind = "none"
              /\ fatal' = NoFatal
              /\ tfState'[l] = NewState(Top.stmt.name, Top.stmt.body)]_vars

\* ------------------------------------------------------------------- C7
\* ExecuteCreateFunction is about to run on a table function whose
\* prototype and return type parse and whose body prepares.
ValidatingTableFunction ==
  /\ Running
  /\ Top.pc = "handle"
  /\ Top.stmt.kind = "CreateFunction"
  /\ Top.stmt.is_table
  /\ Top.stmt.body.protoErr = "none"
  /\ Top.stmt.body.retOk
  /\ Top.stmt.body.prepOk

\* The five structural checks, numbered as they are listed, and the error
\* of each.
CheckError(n) ==
  CASE n = 1 -> "nameless_param"
    [] n = 2 -> "invalid_param_name"
    [] n = 3 -> "param_not_in_prototype"
    [] n = 4 -> "column_count_mismatch"
    [] n = 5 -> "column_name_mismatch"

ArgNames(b) == {b.args[j] : j \in 1..Len(b.args)}

\* The check, if any, that one parameter violates.
ParamViolation(p, b) ==
  IF p = Nameless THEN 1
  ELSE IF p[1] # "$" THEN 2
  ELSE IF p[2] \notin ArgNames(b) THEN 3
  ELSE 0

\* The checks a body violates.
ViolatedChecks(b) ==
  ({ParamViolation(b.params[i], b) : i \in 1..Len(b.params)} \ {0})
  \cup (IF Len(b.cols) # Len(b.rets) THEN {4} ELSE {})
  \cup (IF \E i \in 1..Len(b.cols) : i <= Len(b.rets) /\ b.cols[i] # b.rets[i]
        THEN {5} ELSE {})

Lowest(S) == CHOOSE n \in S : \A m \in S : n <= m

\* C7, as stated: a body violating more than one of the five checks is
\* rejected with the error of the lowest-numbered check it violates.
LowestViolatedCheckReported ==
  [][(ValidatingTableFunction /\ Cardinality(ViolatedChecks(Top.stmt.body)) > 1) =>
       /\ Top'.pc = "done"
       /\ Top'.status = CheckError(Lowest(ViolatedChecks(Top.stmt.body)))]_vars

\* The error the checks give when the three parameter checks are applied
\* parameter by parameter: that of the first parameter violating any of
\* them, else the column count, else the column names.
FirstOffenceError(b) ==
  LET bad == {i \in 1..Len(b.params) : ParamViolation(b.params[i], b) # 0} IN
  IF bad # {} THEN CheckError(ParamViolation(b.params[Lowest(bad)], b))
  ELSE CheckError(Lowest(ViolatedChecks(b)))

\* C7, amended: a body violating more than one of the five checks is
\* rejected with the error of the first parameter that violates a parameter
\* check (the lowest-numbered check that parameter violates); when no
\* parameter does, with the column count error before the column name error.
FirstOffendingParamReported ==
  [][(ValidatingTableFunction /\ Cardinality(ViolatedChecks(Top.stmt.body)) > 1) =>
       /\ Top'.pc = "done"
       /\ Top'.status = FirstOffenceError(Top.stmt.body)
       /\ UNCHANGED <<tfState, relations>>]_vars

\* A body whose first parameter has a wrong sigil and whose second has no
\* name was rejected for the sigil.
SigilReportedBeforeNameless ==
  /\ stack # <<>>
  /\ Top.pc = "done"
  /\ Top.stmt.kind = "CreateFunction" /\ Top.stmt.is_table
  /\ Top.status = "invalid_param_name"
  /\ Len(Top.stmt.body.params) = 2
  /\ Top.stmt.body.params[2] = Nameless

\* ------------------------------------------------------------------- C8
ParamsOf(b) == {b.params[i] : i \in 1..Len(b.params)}

\* C8: a table-function body with a parameter :x is rejected whether or not
\* x is an argument of the prototype, with the sigil error when :x is its
\* only parameter; a body whose single output column is not named as the
\* single declared return column is rejected, with the column name error
\* when its parameters pass.
ColonParamAndColumnNameRejected ==
  [][ValidatingTableFunction =>
       LET b == Top.stmt.body IN
       /\ <<":", "x">> \in ParamsOf(b) =>
            /\ Top'.pc = "done"
            /\ Top'.status \in {"nameless_param", "invalid_param_name",
                                "param_not_in_prototype"}
            /\ b.params = << <<":", "x">> >> => Top'.status = "invalid_param_name"
            /\ UNCHANGED <<tfState, relations>>
       /\ (Len(b.cols) = 1 /\ Len(b.rets) = 1 /\ b.cols[1] # b.rets[1]) =>
            /\ Top'.pc = "done"
            /\ Top'.status # "ok"
            /\ CheckParams(b.params, b.args, 1) = "ok" =>
                 Top'.status = "column_name_mismatch"
            /\ UNCHANGED <<tfState, relations>>]_vars

\* A body whose only parameter is :x was rejected though x is an argument
\* of the prototype.
ColonParamInPrototypeRejected ==
  /\ stack # <<>>
  /\ Top.pc = "done"
  /\ Top.stmt.kind = "CreateFunction" /\ Top.stmt.is_table
  /\ Top.stmt.body.params = << <<":", "x">> >>
  /\ Top.stmt.body.args = <<"x">>
  /\ Top.status = "invalid_param_name"

\* ------------------------------------------------------------------- C9
\* The <<name, argc>> a CREATE PERFETTO FUNCTION statement defines.
KeyOf(s) == <<s.name, Len(s.body.args)>>

\* RegisterSqlFunction is about to run on a scalar function whose prototype
\* and return type parse.
RegisteringScalar ==
  /\ Running
  /\ Top.pc = "handle"
  /\ Top.stmt.kind = "CreateFunction"
  /\ ~Top.stmt.is_table
  /\ Top.stmt.body.protoErr = "none"
  /\ Top.stmt.body.retOk

\* C9: creating a scalar function whose (name, arity) is already defined
\* fails with "already exists" without replace and leaves the definition as
\* it was; with replace it succeeds (when the body prepares) and the new
\* body is the definition; a call of a defined function returns the value
\* of the body of the last creation that succeeded.
ScalarReplaceSemantics ==
  /\ [][(RegisteringScalar /\ functions[KeyOf(Top.stmt)].valid) =>
          IF ~Top.stmt.replace
          THEN /\ Top'.pc = "done" /\ Top'.status = "already_exists"
               /\ UNCHANGED <<functions, lastCreated>>
          ELSE PrepareBody(Top.stmt.body, functions) =>
                 /\ Top'.pc = "prepare"
                 /\ functions'[KeyOf(Top.stmt)].valid
                 /\ functions'[KeyOf(Top.stmt)].tag = Top.stmt.body.tag
                 /\ lastCreated'[KeyOf(Top.stmt)] = Top.stmt.body.tag]_vars
  /\ [][(Running /\ Top.pc = "step" /\ Top.cur.sql.op = "call"
           /\ functions[<<Top.cur.sql.name, Len(Top.cur.sql.args)>>].valid) =>
          /\ Top'.pc = "count"
          /\ Top'.res.value = lastCreated[<<Top.cur.sql.name, Len(Top.cur.sql.args)>>]]_vars

\* A second creation of fn(a) without replace failed and the body of the
\* first is the definition.
SecondCreateRejected ==
  /\ stack # <<>>
  /\ Top.pc = "done"
  /\ Top.status = "already_exists"
  /\ Top.stmt.kind = "CreateFunction" /\ ~Top.stmt.is_table
  /\ Top.stmt.body.tag = "B"
  /\ functions[<<"fn", 1>>].valid
  /\ functions[<<"fn", 1>>].tag = "A"

\* ------------------------------------------------------------------ C10
\* C10: for a (name, arity) with no registration, RegisterSqlFunction
\* leaves the context registered whether or not the body prepares, and a
\* body that calls only the function being created (and functions already
\* registered) prepares and becomes the definition.
ContextRegisteredBeforePrepare ==
  [][(RegisteringScalar /\ ~functions[KeyOf(Top.stmt)].registered) =>
       LET b == Top.stmt.body
           k == KeyOf(Top.stmt)
       IN
       /\ functions'[k].registered
       /\ (b.prepOk /\ \A r \in b.refs : r = k \/ functions[r].registered) =>
            /\ Top'.pc = "prepare"
            /\ functions'[k].valid
            /\ functions'[k].tag = b.tag]_vars

\* The first statement of the first call created fn(a) with a body that
\* calls fn(a).
SelfReferenceCreated ==
  /\ calls = 1 /\ Len(stack) = 1
  /\ Top.idx = 1
  /\ Top.pc = "prepare"
  /\ Top.stmt.kind = "CreateFunction"
  /\ Top.stmt.body.refs = {<<"fn", 1>>}
  /\ functions[<<"fn", 1>>].valid
  /\ functions[<<"fn", 1>>].tag = "R"

\* ------------------------------------------------------------------ C11
\* RegisterSqlTable is about to run on the CREATE PERFETTO TABLE statement.
RegisteringTable ==
  /\ Running
  /\ Top.pc = "handle"
  /\ Top.stmt.kind = "CreateTable"

\* The rows of a query that the stepping loop reaches.
RowsReached(q) ==
  {r \in 1..Len(q.rows) : q.errAt = 0 \/ r < q.errAt}

\* The query meets one of the failures of RegisterSqlTable.
QueryFails(q) ==
  \/ ~q.prepOk
  \/ \E i \in 1..Len(q.names) : q.names[i] = ""
  \/ \E r \in RowsReached(q) : \E i \in 1..Len(q.names) : q.rows[r][i].type = "blob"
  \/ q.errAt # 0
  \/ ~q.finalOk

\* C11: when the body fails to prepare, a column name is empty, a blob is
\* met, the body errors while stepping or finalization fails, the statement
\* fails and the registered tables are what they were; and no failure of
\* the statement changes them.
FailedRegistrationRegistersNothing ==
  [][RegisteringTable =>
       /\ QueryFails(Top.stmt.query) =>
            /\ Top'.pc = "done"
            /\ Top'.status # "ok"
            /\ tables' = tables
       /\ Top'.pc = "done" => tables' = tables]_vars

\* A query of two columns failed on the blob in its second column, after
\* the cell of the first was appended, and no table t exists.
BlobRejectedNothingRegistered ==
  /\ stack # <<>>
  /\ Top.pc = "done"
  /\ Top.stmt.kind = "CreateTable"
  /\ Top.status = "bytes_not_supported"
  /\ Len(Top.stmt.query.names) = 2
  /\ Top.stmt.query.rows[1][2].type = "blob"
  /\ tables[Top.stmt.name].kind = "none"

\* ------------------------------------------------------------------ C12
\* The rows a read of a finalized table yields.
ReadRows(t) ==
  [r \in 1..t.row_count |-> [i \in 1..Len(t.names) |-> t.columns[i][r]]]

SqlTableListedOrLogged ==
  [][(RegisteringTable /\ Top'.pc = "prepare") =>
       \/ listing' = listing \cup {Top.stmt.name} /\ elog' = elog
       \/ listing' = listing /\ elog' = elog \cup {Top.stmt.name}]_vars

\* C13, amended: RegisterTable registers the static table and then inserts
\* the row naming it into perfetto_tables; when the insert fails the
\* failure is logged, the table stays registered and the engine goes on.
\* RegisterSqlTable inserts no row and logs nothing.
ListingRowOnlyFromRegisterTable ==
  /\ [][RegisteringTable => UNCHANGED <<listing, elog>>]_vars
  /\ [][(listing' # listing \/ elog' # elog) =>
          /\ stack = <<>> /\ stack' = <<>>
          /\ \E n \in TableNames :
               /\ tables'[n].kind = "static"
               /\ \/ listing' = listing \cup {n} /\ elog' = elog
                  \/ listing' = listing /\ elog' = elog \cup {n}
          /\ fatal' = NoFatal /\ alive']_vars

\* The insert for the static table u failed and was logged, u is
\* registered, and the table t made by CREATE PERFETTO TABLE has no row.
UnlistedTablesRegistered ==
  /\ "u" \in elog /\ "u" \notin listing
  /\ tables["u"].kind = "static"
  /\ tables["t"].kind = "runtime"
  /\ "t" \notin listing \cup elog
  /\ alive /\ fatal = NoFatal

\* ------------------------------------------------------------------ C14
\* C14: a statement that was just stepped, and the statement
\* ExecuteUntilLastStatement returns, has been stepped exactly once without
\* error; and a statement is replaced by its successor only when it is
\* exhausted.
FinalStatementSteppedOnce ==
  /\ [](\A i \in 1..Len(stack) :
          stack[i].pc \in {"count", "returned"} =>
            /\ stack[i].res.some
            /\ stack[i].res.steps = 1
            /\ stack[i].res.status = "ok")
  /\ [][(Running /\ Top.pc = "step" /\ Top.res.some
           /\ Len(stack') >= Len(stack)
           /\ stack'[Len(stack)].res # Top.res) =>
          IsDone(Top.res)]_vars

\* ExecuteUntilLastStatement returned the second statement of a source, a
\* SELECT with a row still to come, stepped once.
SecondStatementReturnedAfterOneStep ==
  /\ stack # <<>>
  /\ Top.pc = "returned"
  /\ Top.idx = 2
  /\ Top.res.sql.rows >= 1
  /\ Top.res.steps = 1
  /\ ~IsDone(Top.res)

\* ------------------------------------------------------------------ C15
\* C15: when Execute returns successfully the last statement is exhausted
\* (the earlier ones were when they were replaced); Execute returns the
\* stats ExecuteUntilLastStatement computed, and the error of the drain
\* when it fails.
ExecuteDrainsLastStatement ==
  /\ [](\A i \in 1..Len(stack) :
          (stack[i].pc = "done" /\ stack[i].mode = "execute"
             /\ stack[i].status = "ok") =>
            stack[i].res.some /\ IsDone(stack[i].res))
  /\ [][(Running /\ Top.pc = "returned") =>
          /\ Top'.pc = "done"
          /\ Top'.stats = Top.stats
          /\ Top.mode = "execute" =>
               /\ Top'.res = DrainStmt(Top.res)
               /\ Top'.status = DrainStmt(Top.res).status
          /\ Top.mode = "until_last" => Top'.res = Top.res]_vars

\* Execute returned after draining a last statement that had a row left
\* after its first step.
LastStatementDrainedByExecute ==
  /\ stack # <<>>
  /\ Top.pc = "done"
  /\ Top.mode = "execute"
  /\ Top.status = "ok"
  /\ Top.res.sql.rows >= 1
  /\ Top.res.steps > 1
  /\ IsDone(Top.res)

\* ------------------------------------------------------------------ C16
\* C16: counting a statement adds one to statement_count, and one to
\* statement_count_with_output unless the statement is exhausted after its
\* first step, or has exactly one column and that column carries the VOID
\* pointer or is named suppress_query_output; a statement of two or more
\* columns that is not exhausted always adds one.
OutputAccounting ==
  [][(Running /\ Top.pc = "count") =>
       LET p == Top.res
           exempt == \/ p.done
                     \/ p.sql.ncols = 1 /\ p.sql.void
                     \/ p.sql.ncols = 1 /\ p.sql.suppress
       IN
       /\ Top'.stats.statement_count = Top.stats.statement_count + 1
       /\ Top'.stats.statement_count_with_output =
            Top.stats.statement_count_with_output + (IF exempt THEN 0 ELSE 1)
       /\ (p.sql.ncols >= 2 /\ ~p.done) =>
            Top'.stats.statement_count_with_output =
              Top.stats.statement_count_with_output + 1]_vars

\* A statement of two columns whose first is named suppress_query_output,
\* with a row, was counted as producing output.
TwoColumnSuppressCounted ==
  /\ stack # <<>>
  /\ Top.pc = "next"
  /\ Top.res.some
  /\ Top.res.sql.ncols = 2 /\ Top.res.sql.suppress
  /\ ~Top.res.done
  /\ Top.idx = 1
  /\ Top.stats.statement_count_with_output = 1

\* ------------------------------------------------------------------ C17
\* Execute has returned to Import::Run: the call at the top of the stack,
\* made for the body of a file, is finished.
BodyReturned ==
  /\ Running
  /\ Len(stack) > 1
  /\ Top.pc = "done"

\* C17: when the body of a file was executed without error and no
\* statement of it had output, Run sets the flag of the file and succeeds;
\* otherwise Run fails, with "returning values" when the body itself
\* succeeded, and the flag is false afterwards; the flag of a file changes
\* at no other moment and the flag of no other file changes.
ImportedSetIffBodyClean ==
  /\ [][BodyReturned =>
          LET k == Top.src
              caller == stack'[Len(stack')]
              clean == /\ Top.status = "ok"
                       /\ Top.stats.statement_count_with_output = 0
          IN
          /\ Len(stack') = Len(stack) - 1
          /\ clean => imported'[k] /\ caller.pc = "count"
          /\ ~clean =>
               /\ ~imported'[k]
               /\ caller.pc = "done"
               /\ caller.status # "ok"
               /\ Top.status = "ok" => caller.status = "returning_values"
               /\ Top.status # "ok" => caller.status = Top.status
          /\ \A j \in ImportKeys \ {k} : imported'[j] = imported[j]]_vars
  /\ [][imported' # imported => BodyReturned]_vars

\* The import of a file whose body has a statement with output failed with
\* "returning values" and the file is not marked.
ReturningValuesLeavesFlagUnset ==
  /\ Len(stack) = 1
  /\ Top.pc = "done"
  /\ Top.status = "returning_values"
  /\ bodyRuns[<<"m", "out">>] >= 1
  /\ ~imported[<<"m", "out">>]

\* ------------------------------------------------------------------ C18
\* C18: the imported flag of a file, once true, stays true.
ImportedMonotonic ==
  [][\A k \in ImportKeys : imported[k] => imported'[k]]_vars

\* A file is marked and a later import, of another file, has failed.
MarkedFileSurvivesLaterFailure ==
  /\ imported[<<"m", "ok">>]
  /\ runLog[<<"m", "out">>] # <<>>
  /\ Len(stack) = 1
  /\ Top.pc = "done"
  /\ Top.status = "returning_values"

\* ------------------------------------------------------------------ C19
\* The engine is about to be asked to prepare a statement it rejects.
PrepareFails ==
  /\ Running
  /\ Top.pc = "prepare"
  /\ ~PrepareStatement(Top.source, relations, functions)

\* C19: when the engine fails to prepare a statement the call ends at once
\* with the engine's error: no statement was prepared, the previous one is
\* not stepped further, the engine is as it was; and a call that has ended
\* takes no further step but its return.
PrepareFailureAborts ==
  /\ [][PrepareFails =>
          /\ Top'.pc = "done"
          /\ Top'.status = "engine_error"
          /\ ~Top'.cur.some
          /\ Top'.res = Top.res
          /\ Top'.idx = Top.idx
          /\ Top'.stats = Top.stats
          /\ UNCHANGED <<tfState, relations, functions, tables, imported>>]_vars
  /\ [][(Running /\ Top.pc = "done") =>
          /\ Len(stack') = Len(stack) - 1
          /\ UNCHANGED <<tfState, relations, functions, tables>>]_vars

\* The second statement of a source was rejected by the engine; the first,
\* which had a row left, stays as its first step left it.
SecondStatementNotPrepared ==
  /\ stack # <<>>
  /\ Top.pc = "done"
  /\ Top.status = "engine_error"
  /\ Top.source.op = "bad"
  /\ Top.idx = 2
  /\ ~Top.cur.some
  /\ Top.res.some /\ Top.res.steps = 1 /\ ~IsDone(Top.res)

\* ------------------------------------------------------------------ C20
\* C20: when the parser has ended a source without a statement, the call
\* fails with "No valid SQL to run" if the parser reports no error and with
\* the parser's error otherwise, nothing having been prepared or stepped;
\* after statements, the parser's error is returned if there is one.
NoStatementIsAnError ==
  /\ [][(Running /\ Top.pc = "end") =>
          /\ UNCHANGED <<tfState, relations, functions, tables, imported>>
          /\ ~Top.parserOk => Top'.pc = "done" /\ Top'.status = "syntax_error"
          /\ (Top.parserOk /\ Top.idx = 0) =>
               /\ Top'.pc = "done" /\ Top'.status = "no_valid_sql"
               /\ ~Top'.res.some /\ ~Top'.cur.some
          /\ (Top.parserOk /\ Top.idx > 0) =>
               /\ Top'.pc = "returned" /\ Top'.res.some]_vars
  /\ [](\A i \in 1..Len(stack) :
          stack[i].idx = 0 => ~stack[i].res.some /\ ~stack[i].cur.some)

\* A source without a statement failed with "No valid SQL to run".
EmptySourceRejected ==
  /\ stack # <<>>
  /\ Top.pc = "done"
  /\ Top.idx = 0
  /\ Top.parserOk
  /\ Top.status = "no_valid_sql"

\* ------------------------------------------------------------------ C21
\* A step of EnableSqlFunctionMemoization that is visible in the state: no
\* pipeline call is in progress and the recorded call or a registration
\* changes.
MemoizeStep ==
  /\ stack = <<>> /\ stack' = <<>> /\ alive'
  /\ memoRet' # memoRet \/ functions' # functions

RECURSIVE Tracebacks(_)
Tracebacks(message) ==
  IF message = <<>> THEN 0
  ELSE (IF Head(message) \in {AsTraceback(src) : src \in Sources} THEN 1 ELSE 0)
       + Tracebacks(Tail(message))

\* C22: an ok status comes back from AddTracebackIfNeeded as it went in;
\* an error status carries, after any number of applications, exactly one
\* traceback prefix, and it is the status the first application returned:
\* the status it was handed when that one had the marker, and otherwise the
\* first source's traceback before the message, with the marker.
TracebackAttachedOnce ==
  /\ tbIn.ok => tbStatus = tbIn
  /\ ~tbIn.ok /\ tbSources # <<>> =>
       /\ Tracebacks(tbStatus.message) = 1
       /\ tbStatus.payload
       /\ tbStatus =
            IF tbIn.payload THEN tbIn
            ELSE [ok |-> FALSE, payload |-> TRUE,
                  message |-> <<AsTraceback(tbSources[1])>> \o tbIn.message]

\* An error without marker was wrapped with one source and then with the
\* other.
WrappedTwice ==
  /\ ~tbIn.ok /\ ~tbIn.payload
  /\ Len(tbSources) >= 2 /\ tbSources[1] # tbSources[2]

\* ------------------------------------------------------------------ C23
\* The calls made with one constraint, and the column, the constraint, the
\* candidates and the result of such a call.
SingleCalls == {k \in 1..Len(qeCalls) : Len(qeCalls[k].c_vec) = 1}
ColOf(k) == qe.columns[qeCalls[k].c_vec[1].col + 1]
ConOf(k) == qeCalls[k].c_vec[1]
InOf(k) == qeCalls[k].steps[1]
OutOf(k) == qeCalls[k].steps[2]

RECURSIVE Resolved(_, _, _)
Resolved(overlays, k, i) ==
  IF k > Len(overlays) THEN i
  ELSE IF overlays[k].kind = "null" /\ overlays[k].bv[i + 1] = 0 THEN -1
  ELSE Resolved(overlays, k + 1,
         IF overlays[k].kind = "null"
         THEN Cardinality({b \in 1..i : overlays[k].bv[b] = 1})
         ELSE CHOOSE b \in 0..(Len(overlays[k].bv) - 1) :
                /\ overlays[k].bv[b + 1] = 1
                /\ Cardinality({a \in 1..b : overlays[k].bv[a] = 1}) = i)

\* Row i of the column satisfies the constraint: a null row satisfies
\* IsNull and nothing else, any other row what its stored value satisfies.
Passes(c, col, i) ==
  LET slot == Resolved(col.overlays, 1, i) IN
  IF slot = -1 THEN c.op = "is_null"
  ELSE Compare(c.op, col.storage[slot + 1], c.value)

\* The case of the unit test that the executor is, if any.
TestOf(k) == {t \in Tests : t.test = qe.test /\ t.fn = qeCalls[k].fn}

\* C24: for a column under no overlay, a null overlay, a selector overlay
\* or a null overlay over a selector overlay, each strategy and Filter
\* return exactly the candidates that satisfy the constraint, numbered as
\* rows of the outermost overlay; in the cases of the unit test these are
\* the rows the test asserts.
FilterReturnsSatisfyingRows ==
  \A k \in SingleCalls :
    /\ Rows(OutOf(k)) = {i \in Rows(InOf(k)) : Passes(ConOf(k), ColOf(k), i)}
    /\ \A t \in TestOf(k) :
         /\ Len(Indices(OutOf(k))) = t.size
         /\ \A j \in 1..Len(t.gets) : Indices(OutOf(k))[j] = t.gets[j]

\* Filter ran the case SingleConstraintWithNullAndSelector and returned
\* the rows 3, 4 and 7.
NullOverSelectorFiltered ==
  /\ qe.test = "SingleConstraintWithNullAndSelector"
  /\ qeCalls # <<>> /\ qeCalls[1].fn = "filter"
  /\ Indices(OutOf(1)) = <<3, 4, 7>>

\* ------------------------------------------------------------------ C25
\* C25: an IsNull constraint returns, under the bounds strategy, the
\* indexed strategy and Filter, exactly the candidates whose bit in the
\* null overlay is clear, also when the null overlay lies over a selector
\* overlay, and no row on a column without overlays.
IsNullReturnsNullRows ==
  \A k \in SingleCalls :
    ConOf(k).op = "is_null" =>
      /\ ColOf(k).overlays = <<>> => Indices(OutOf(k)) = <<>>
      /\ ColOf(k).overlays # <<>> /\ ColOf(k).overlays[1].kind = "null" =>
           Rows(OutOf(k)) =
             {i \in Rows(InOf(k)) : ColOf(k).overlays[1].bv[i + 1] = 0}

\* The bounds strategy ran the case NullOverlayRangeIsNull and returned
\* the rows 2, 5, 6, 7 and 9.
NullRowsFoundByBounds ==
  /\ qe.test = "NullOverlayRangeIsNull"
  /\ qeCalls # <<>> /\ qeCalls[1].fn = "bounded"
  /\ Indices(OutOf(1)) = <<2, 5, 6, 7, 9>>

\* ------------------------------------------------------------------ C26
\* Row i translated through the overlays k, k - 1, ..., 1 in this order:
\* the innermost overlay first.
RECURSIVE TranslatedInnermostFirst(_, _, _)
TranslatedInnermostFirst(overlays, k, i) ==
  IF k = 0 THEN i
  ELSE TranslatedInnermostFirst(overlays, k - 1, MapToStorageIndex(overlays[k], i))

\* The calls of the indexed strategy, and a RowMap being an increasing
\* index list.
IndexedCalls == {k \in SingleCalls : qeCalls[k].fn = "indexed"}
IncreasingList(rm) ==
  /\ rm.kind = "index"
  /\ \A j \in 1..(Len(rm.indices) - 1) : rm.indices[j] < rm.indices[j + 1]

\* C26, as stated: the indexed strategy returns, as an increasing index
\* list, the candidates that no overlay marks null (tested from the
\* outermost overlay inwards) and whose value at the storage slot obtained
\* by translating the row through the innermost overlay first satisfies
\* the comparison.
IndexedTranslatesInnermostFirst ==
  \A k \in IndexedCalls :
    /\ IncreasingList(OutOf(k))
    /\ Rows(OutOf(k)) =
         {i \in Rows(InOf(k)) :
            IF Resolved(ColOf(k).overlays, 1, i) = -1 THEN ConOf(k).op = "is_null"
            ELSE LET slot == TranslatedInnermostFirst(ColOf(k).overlays,
                                                      Len(ColOf(k).overlays), i)
                 IN /\ slot + 1 \in DOMAIN ColOf(k).storage
                    /\ Compare(ConOf(k).op, ColOf(k).storage[slot + 1], ConOf(k).value)}

\* C26, amended: the indexed strategy returns, as an increasing index
\* list, the candidates that satisfy the constraint when each overlay,
\* from the outermost inwards, first may declare its row null and then
\* translates it for the next one: under two overlays the slot of row i is
\* that of the inner overlay applied to the outer overlay's translation of
\* i.
IndexedResolvesOutermostFirst ==
  \A k \in IndexedCalls :
    LET ovs == ColOf(k).overlays
        c == ConOf(k)
        Stored(slot) == Compare(c.op, ColOf(k).storage[slot + 1], c.value)
    IN
    /\ IncreasingList(OutOf(k))
    /\ Rows(OutOf(k)) =
         {i \in Rows(InOf(k)) :
            CASE Len(ovs) = 0 -> Stored(i)
              [] Len(ovs) = 1 ->
                   IF IsNullRow(ovs[1], i) THEN c.op = "is_null"
                   ELSE Stored(MapToStorageIndex(ovs[1], i))
              [] OTHER ->
                   IF IsNullRow(ovs[1], i) THEN c.op = "is_null"
                   ELSE IF IsNullRow(ovs[2], MapToStorageIndex(ovs[1], i))
                        THEN c.op = "is_null"
                   ELSE Stored(MapToStorageIndex(ovs[2],
                                 MapToStorageIndex(ovs[1], i)))}

\* The indexed strategy ran the column of the case
\* SingleConstraintWithNullAndSelector and returned the rows 3, 4 and 7.
NullOverSelectorIndexed ==
  /\ qe.test = "SingleConstraintWithNullAndSelector"
  /\ qeCalls # <<>> /\ qeCalls[1].fn = "indexed"
  /\ OutOf(1) = IndexVector(<<3, 4, 7>>)

\* ------------------------------------------------------------------ C27
\* The Filter calls, and the column that constraint j of call k is on.
FilterCalls == {k \in 1..Len(qeCalls) : qeCalls[k].fn = "filter"}
ColAt(k, j) == qe.columns[qeCalls[k].c_vec[j].col + 1]

\* C27: Filter starts from the range of all rows and hands the RowMap of
\* each constraint to the next one as its candidates; each RowMap holds
\* exactly the rows of the one before that satisfy its constraint, so each
\* is a subset of the one before, and the last holds exactly the rows of
\* the initial range that satisfy every constraint.
FilterNarrowsLeftToRight ==
  \A k \in FilterCalls :
    LET call == qeCalls[k]
        n == Len(call.c_vec)
    IN
    /\ Len(call.steps) = n + 1
    /\ call.steps[1] = Range(0, qe.row_count)
    /\ \A j \in 1..n :
         /\ Rows(call.steps[j + 1]) \subseteq Rows(call.steps[j])
         /\ Rows(call.steps[j + 1]) =
              {i \in Rows(call.steps[j]) : Passes(call.c_vec[j], ColAt(k, j), i)}
    /\ Rows(call.steps[n + 1]) =
         {i \in 0..(qe.row_count - 1) :
            \A j \in 1..n : Passes(call.c_vec[j], ColAt(k, j), i)}

\* Filter ran two constraints; the first dropped some rows, the second
\* dropped some of the rest and kept others.
NarrowedTwice ==
  /\ qeCalls # <<>> /\ qeCalls[1].fn = "filter" /\ Len(qeCalls[1].c_vec) = 2
  /\ Rows(qeCalls[1].steps[2]) # Rows(qeCalls[1].steps[1])
  /\ Rows(qeCalls[1].steps[3]) # Rows(qeCalls[1].steps[2])
  /\ Rows(qeCalls[1].steps[3]) # {}

\* ------------------------------------------------------------------ C28
\* The rows a Filter call returned.
Returned(k) == Rows(qeCalls[k].steps[Len(qeCalls[k].steps)])

\* C28: two Filter calls on the same executor whose constraints are on
\* two different columns and are given in opposite orders return the same
\* rows.
FilterCommutes ==
  \A k1 \in FilterCalls, k2 \in FilterCalls :
    /\ Len(qeCalls[k1].c_vec) = 2
    /\ qeCalls[k1].c_vec[1].col # qeCalls[k1].c_vec[2].col
    /\ qeCalls[k2].c_vec = <<qeCalls[k1].c_vec[2], qeCalls[k1].c_vec[1]>>
    => Returned(k1) = Returned(k2)

\* Filter ran two constraints in one order and in the other; the rows
\* left after the first constraint differ and the rows returned are some
\* but not all.
BothOrdersFiltered ==
  /\ Len(qeCalls) = 2 /\ Len(qe.c_vec) = 2
  /\ qeCalls[1].c_vec # qeCalls[2].c_vec
  /\ Rows(qeCalls[1].steps[2]) # Rows(qeCalls[2].steps[2])
  /\ Returned(1) # {} /\ Returned(1) # 0..(qe.row_count - 1)

\* ------------------------------------------------------------------ C29
\* A RowMap is a range or a strictly increasing index list.
WellFormed(rm) ==
  \/ rm.kind = "range" /\ rm.start <= rm.end
  \/ IncreasingList(rm)

\* The RowMaps passed to and returned by the strategy that ran for
\* constraint j of call k, and the column of that constraint.
StrategyRuns == {<<k, j>> \in (1..Len(qeCalls)) \X (1..MaxFilterCalls) :
                   j <= Len(qeCalls[k].c_vec)}

\* C29, as stated: every RowMap passed to or returned by Filter and by
\* either strategy is a range or a strictly increasing index list, and
\* every index in it is less than the size of the column's storage.
RowSetWithinStorage ==
  \A r \in StrategyRuns :
    \A rm \in {qeCalls[r[1]].steps[r[2]], qeCalls[r[1]].steps[r[2] + 1]} :
      /\ WellFormed(rm)
      /\ \A i \in Rows(rm) : i < Len(ColAt(r[1], r[2]).storage)

\* C29, amended: every RowMap passed to or returned by Filter and by
\* either strategy is a range or a strictly increasing index list, and
\* every index in it is less than the number of rows of the column (the
\* size of its outermost overlay, or of its storage without overlays).
RowSetWithinColumn ==
  \A r \in StrategyRuns :
    \A rm \in {qeCalls[r[1]].steps[r[2]], qeCalls[r[1]].steps[r[2] + 1]} :
      /\ WellFormed(rm)
      /\ \A i \in Rows(rm) : i < ColumnSize(ColAt(r[1], r[2]))

\* The indexed strategy returned, under a null overlay, an index list of
\* several rows whose last row lies past the end of the storage.
RowPastStorageReturned ==
  \E k \in IndexedCalls :
    /\ Len(ColOf(k).overlays) = 1 /\ ColOf(k).overlays[1].kind = "null"
    /\ Len(OutOf(k).indices) > 1
    /\ OutOf(k).indices[Len(OutOf(k).indices)] >= Len(ColOf(k).storage)

\* ------------------------------------------------------------------ C30
\* C30: in every pipeline call, no statement was ever replaced by the
\* first step of its successor before it was exhausted, and when a
\* statement is about to take its first step the one statement still held
\* from earlier in the call is exhausted: a call has at most one
\* partially stepped statement.
OnePartiallySteppedStatement ==
  \A i \in 1..Len(stack) :
    /\ stack[i].undrained = 0
    /\ stack[i].pc = "step" /\ stack[i].res.some => IsDone(stack[i].res)
    /\ ~(stack[i].cur.some /\ stack[i].cur.steps > 0)

\* The second statement of a call has taken its first step and still has
\* rows; the first statement had returned a row at its first step and was
\* counted as a statement with output.
SecondSteppedAfterFirstDrained ==
  /\ stack # <<>>
  /\ Top.pc = "count" /\ Top.idx = 2
  /\ Top.stats.statement_count = 1
  /\ Top.stats.statement_count_with_output = 1
  /\ Top.res.some /\ Top.res.steps = 1 /\ ~IsDone(Top.res)

\* ------------------------------------------------------------------ C31
\* Two names are the same up to the case of their letters.
SameLetters(a, b) == a = b \/ {a, b} = {"f", "F"}

\* The keys of the state map that a name addresses.
KeysOf(name) == {k \in LowerNames : SameLetters(k, name)}

\* C31: OnTableFunctionDestroyed(name) removes the one entry under the
\* lowercase form of name and leaves every other entry as it was;
\* GetTableFunctionState(name) returns the entry under that key and leaves
\* the map as it was; either ends in a fatal check exactly when the map
\* has no entry under that key, so names that differ in letter case only
\* address the same entry.
RegistryKeyedByLowercase ==
  tfCall.op # "" =>
    \E k \in KeysOf(tfCall.name) :
      /\ KeysOf(tfCall.name) = {k}
      /\ fatal = NoFatal <=> tfCall.before[k].present
      /\ \A m \in LowerNames \ {k} : tfState[m] = tfCall.before[m]
      /\ fatal # NoFatal => tfState = tfCall.before
      /\ tfCall.op = "get" => tfState = tfCall.before
      /\ tfCall.op = "get" /\ fatal = NoFatal => tfCall.got = tfCall.before[k]
      /\ tfCall.op = "destroyed" /\ fatal = NoFatal => ~tfState[k].present

\* The entry of a function created as f was removed through the name F
\* while the map held another entry, which is still there.
DestroyedUnderOtherCase ==
  /\ tfCall.op = "destroyed" /\ tfCall.name = "F" /\ fatal = NoFatal
  /\ tfCall.before["f"].name = "f"
  /\ tfState["g"].present

\* ------------------------------------------------------------------ C32
\* The calls of Execute made by Import::Run that are in progress.
BodyCalls == {i \in 1..Len(stack) : stack[i].entry # <<>>}

\* C32: every call of Import::Run returns, also on a file whose body
\* imports its own key or a file that imports it: Run never hands the body
\* of a file to Execute in the state in which a call still in progress was
\* handed the same body (the inner call would repeat the outer one, which
\* then never returns).
ImportRunReturns ==
  \A i \in BodyCalls, j \in BodyCalls :
    i < j /\ stack[i].src = stack[j].src => stack[i].entry # stack[j].entry

\* ------------------------------------------------------------------ C33
\* The keys of the function contexts registered with the embedded engine.
RegisteredKeys(fns) == {k \in FnKeys : fns[k].registered}

\* C33: a CREATE PERFETTO FUNCTION statement whose RegisterSqlFunction call
\* returns an error leaves the set of registered function contexts as it
\* was.
FailedCreateKeepsContexts ==
  [][(/\ Running /\ Top.pc = "handle"
      /\ Top.stmt.kind = "CreateFunction" /\ ~Top.stmt.is_table
      /\ stack' # <<>> /\ Top'.pc = "done" /\ Top'.status # "ok")
     => RegisteredKeys(functions') = RegisteredKeys(functions)]_vars

\* ------------------------------------------------------------------ C34
\* The statement being counted is one the pipeline executed itself.
HandledByPipeline(stmt) ==
  \/ stmt.kind = "CreateFunction" /\ ~stmt.is_table
  \/ stmt.kind = "CreateTable"

\* C34: when a call returns successfully, statement_count is the number of
\* statements the parser yielded and statement_count_with_output lies
\* between 0 and statement_count; counting a scalar CREATE FUNCTION or a
\* CREATE TABLE never adds to statement_count_with_output.
StatsCountEveryStatement ==
  /\ [](\A i \in 1..Len(stack) :
          stack[i].pc = "done" /\ stack[i].status = "ok" =>
            /\ stack[i].stats.statement_count = stack[i].idx
            /\ stack[i].stats.statement_count_with_output >= 0
            /\ stack[i].stats.statement_count_with_output
                 <= stack[i].stats.statement_count)
  /\ [][(Running /\ Top.pc = "count" /\ HandledByPipeline(Top.stmt)) =>
          /\ Top'.stats.statement_count = Top.stats.statement_count + 1
          /\ Top'.stats.statement_count_with_output =
               Top.stats.statement_count_with_output]_vars

\* A call returned successfully after a CREATE of the pipeline and a
\* SELECT that returned a row: two statements, one of them with output.
CreateAndSelectCounted ==
  /\ stack # <<>> /\ Top.pc = "done" /\ Top.status = "ok"
  /\ Top.idx = 2
  /\ Top.stats = [statement_count |-> 2, statement_count_with_output |-> 1]
  /\ Top.res.sql.op = "noop"

\* ------------------------------------------------------------------ C35
\* The API objects alive.
Alive == {o \in 1..MaxObjects : impl_[o] # NoImpl}

\* C35: the API objects alive at the same time hold the same Impl, and an
\* Impl is constructed only when no API object is alive (so no owner of an
\* earlier Impl is left).
OneImplShared ==
  /\ [](\A a \in Alive, b \in Alive : impl_[a] = impl_[b])
  /\ [][impls' # impls => Alive = {} /\ impls' = impls + 1]_vars

\* After the first Impl lost its last owner, a second one was constructed
\* and is held by two API objects.
SecondImplShared ==
  /\ impls = 2
  /\ Cardinality(Alive) = 2
  /\ \A o \in Alive : impl_[o] = 2

====
